---- MODULE Spec2Model ----
(***************************************************************************)
(* TwitchNotifierBot: the Twitch app-token lifecycle, the poll loop with   *)
(* its offline->live edge detection, the Telegram senders and the ledger   *)
(* of sent messages with its deletion timer.                               *)
(*                                                                         *)
(* Node runs one thread: every action below is one run-to-completion       *)
(* segment of JavaScript, from the resumption of an await to the next      *)
(* await. An awaited HTTP exchange is folded into the segment that         *)
(* consumes its response; the response is an input drawn with \E. Wall     *)
(* clock time (Date.now(), in ms) moves only in Advance, between segments. *)
(***************************************************************************)
EXTENDS Integers, Sequences, FiniteSets, TLC

\* ---------------------------------------------------------------- bounds
StartMs == 1000          \* Date.now() when the process starts
StepMinutes == 180       \* the clock moves in steps of this many minutes
MaxSteps == 2            \* the clock stops StepMinutes * MaxSteps after start
MaxMsgs == 2             \* Telegram acknowledges at most this many messages
POLL_SECONDS == 10800    \* process.env.POLL_SECONDS: the configured poll interval
ManyLogins == 101        \* length of the long TWITCH_LOGINS list
MaxIds == 250            \* a lookup is called with at most this many identifiers
MaxPollSec == 2147484    \* the largest POLL_SECONDS value tried
MaxText == 3             \* a field of a stream has at most this many characters
MaxTimers == 2           \* startDeletionLoop() is called at most this many times
MaxCalls == 2            \* a caller has at most this many token calls in flight

StepMs == StepMinutes * 60 * 1000
MaxTime == StartMs + MaxSteps * StepMs

\* ------------------------------------------------------ program constants
MarginSec == 300         \* "Refresh 5 minutes before actual expiration"
FloorSec == 300          \* Math.max(ttlSec - 300, 300)
DefaultTtlSec == 3600    \* data.expires_in || 3600
DefaultPollSec == 60
TIMEOUT_MAX == 2147483647
MinPollSec == 5          \* Math.max(5, Number(POLL_SECONDS))
BatchSize == 100         \* i += 100, slice(i, i + 100)
threeHOURs == 180 * 60 * 1000

Null == "null"
CHAT == "chat"           \* process.env.TELEGRAM_CHAT_ID

Max(a, b) == IF a >= b THEN a ELSE b
Min(a, b) == IF a <= b THEN a ELSE b

\* const delayMs = Math.max(5, Number(POLL_SECONDS)) * 1000
delayMs == Max(MinPollSec, POLL_SECONDS) * 1000

\* ------------------------------------------------------------ input sets
\* TWITCH_LOGINS after split/trim/lower-case/filter; the empty list is what a
\* value such as "," gives
\* the long list: alice first, bob last, numerals as logins between them
LongList ==
    [j \in 1..ManyLogins |->
        IF j = 1 THEN "alice" ELSE IF j = ManyLogins THEN "bob" ELSE ToString(j)]
LoginConfigs == {<< >>, <<"alice", "bob">>, LongList}
\* the logins that exist on Twitch: /helix/users reports no other
Users == {"alice", "bob"}
\* the id Twitch reports for a login (u.id)
IdOf(login) == IF login = "alice" THEN 1 ELSE 2
\* The ids index.js polls when every login of the long list exists on Twitch: login
\* "2" has id 3, ..., login "100" has id 101. Object.values(loginToId) lists
\* the integer-like keys first, in ascending order, and then alice and bob.
ManyIds ==
    [j \in 1..ManyLogins |->
        IF j <= ManyLogins - 2 THEN j + 2
        ELSE IF j = ManyLogins - 1 THEN 1 ELSE 2]

\* access_token values the authorization endpoint may return
Tokens == {"tokA", "tokB"}
\* expires_in values (seconds); 0 stands for 0 and for a missing field
Lifetimes == {0, 100, 11100}

\* Responses of POST /oauth2/token
TokenResponses ==
    {[kind |-> "transport"], [kind |-> "status"]}
    \cup {[kind |-> "ok", access_token |-> tk, expires_in |-> L] :
            tk \in Tokens, L \in Lifetimes}

VARIABLES
    now,                      \* Date.now()
    TWITCH_TOKEN,             \* current bearer token, or Null
    TWITCH_TOKEN_EXPIRES_AT,  \* epoch ms when the token should be refreshed
    issued,                   \* history: when and with what lifetime the held token was issued
    sentMessages,             \* the ledger: sequence of {chatId, messageId, sentAt}
    nextMsgId,                \* the message_id Telegram gives to the next message
    notifier,                 \* the send in use: tgSend in index.js, tgSendStream for a caller of methods.js
    pc,                       \* where main() is
    exitCode,                 \* process exit code, -1 while running
    logins,                   \* configured logins
    ids,                      \* resolved user ids (Object.values(loginToId))
    wasLive,                  \* id -> was live as of the last poll
    liveNow,                  \* ids present in getLiveStreams' result so far
    i,                        \* getLiveStreams' batch offset
    k,                        \* position of the for loop over ids
    stopped,                  \* set by SIGINT / SIGTERM
    wake,                     \* when the sleep's setTimeout fires
    calls,                    \* a caller's getAppToken() and twitchHeaders() calls that are awaiting
    timerOn,                  \* startDeletionLoop() has called setInterval at least once
    nextFire,                 \* when each deletion interval fires next, in order of registration
    timerList,                \* the deletion intervals in the order they were armed
    sweeps,                   \* deletion callbacks that are awaiting a deleteMessage
    attempts,                 \* history: messageId -> deleteMessage calls started
    failedDel,                \* history: messageIds whose deleteMessage failed
    retried,                  \* history: messageIds deleteMessage was called for after it had failed
    acked,                    \* history: the sendPhoto calls Telegram acknowledged with an id
    swept,                    \* history: the records the deletion callbacks spliced out
    tick,                     \* history: the tick in progress
    prev,                     \* history: the tick before it
    ev                        \* history: what the last segment did

vars == <<now, TWITCH_TOKEN, TWITCH_TOKEN_EXPIRES_AT, issued, sentMessages,
          nextMsgId, notifier, pc, exitCode, logins, ids, wasLive, liveNow,
          i, k, stopped, wake, calls, timerOn, nextFire, timerList, sweeps,
          attempts,
          failedDel, retried, acked, swept, tick, prev, ev>>

tokenVars == <<TWITCH_TOKEN, TWITCH_TOKEN_EXPIRES_AT, issued>>
sweepVars == <<timerOn, nextFire, timerList, sweeps, attempts, failedDel, retried, swept,
               acked>>
tickVars == <<tick, prev>>

\* ------------------------------------------------------- token lifecycle
\* const ttlSec = Number(data.expires_in || 3600)
ttlSec(expires_in) == IF expires_in = 0 THEN DefaultTtlSec ELSE expires_in

\* Date.now() + Math.max(ttlSec - 300, 300) * 1000
ExpiresAt(t, expires_in) ==
    t + Max(ttlSec(expires_in) - MarginSec, FloorSec) * 1000

\* variant: the stored token is cleared before the request is made
GetAppToken_ClearFirst(cred, resp, t) ==
    IF resp.kind # "ok"
    THEN [raised |-> TRUE,
          cred |-> [token |-> Null, expiresAt |-> 0, issued |-> cred.issued]]
    ELSE [raised |-> FALSE,
          cred |-> [token |-> resp.access_token,
                    expiresAt |-> ExpiresAt(t, resp.expires_in),
                    issued |-> [at |-> t, L |-> resp.expires_in]]]

\* getAppToken(): the credential after the call and whether it threw.
\* cred is [token, expiresAt, issued]; resp the endpoint's response, t Date.now().
GetAppToken(cred, resp, t) ==
    IF resp.kind # "ok"
    THEN [raised |-> TRUE, cred |-> cred]
    ELSE [raised |-> FALSE,
          cred |-> [token |-> resp.access_token,
                    expiresAt |-> ExpiresAt(t, resp.expires_in),
                    issued |-> [at |-> t, L |-> resp.expires_in]]]

\* variant: twitchHeaders() acquires a token on every call
NeedsRefresh_Always(cred, t) == TRUE

\* variant: only a missing token is acquired, the expiry is not looked at
NeedsRefresh_NoExpiry(cred, t) == cred.token = Null

\* if (!TWITCH_TOKEN || Date.now() > TWITCH_TOKEN_EXPIRES_AT)
NeedsRefresh(cred, t) == cred.token = Null \/ t > cred.expiresAt

\* twitchHeaders(): refreshes when needed, then returns the Authorization
\* header's token. resp is consumed only when a refresh is performed.
TwitchHeaders(cred, resp, t) ==
    IF NeedsRefresh(cred, t)
    THEN LET r == GetAppToken(cred, resp, t)
         IN  [raised |-> r.raised, cred |-> r.cred, refreshed |-> TRUE,
              bearer |-> r.cred.token]
    ELSE [raised |-> FALSE, cred |-> cred, refreshed |-> FALSE,
          bearer |-> cred.token]

Cred == [token |-> TWITCH_TOKEN, expiresAt |-> TWITCH_TOKEN_EXPIRES_AT,
         issued |-> issued]

SetCred(c) ==
    /\ TWITCH_TOKEN' = c.token
    /\ TWITCH_TOKEN_EXPIRES_AT' = c.expiresAt
    /\ issued' = c.issued

\* --------------------------------------------------------- Telegram side
RetNull == [t |-> "null"]
RetUndefined == [t |-> "undefined"]
RetId(n) == [t |-> "number", v |-> n]

\* The values a messageId can be, as JavaScript tells them apart with ===:
\* a number, false ("boolean"), or the empty string ("string"); v is 0 for
\* the last two. FalsyResults are the results for which
\* `data.result && data.result.message_id` is the result itself and is
\* != null: false, 0 and "".
FalsyResults == {[t |-> "boolean", v |-> 0], RetId(0), [t |-> "string", v |-> 0]}
MessageIds == FalsyResults \cup {RetId(n) : n \in 1..(MaxMsgs + 1)}

\* What the Bot API (or the network) answers to a send. "transport": fetch or
\* res.text() rejects; "unparseable": the body is no JSON; "status": !res.ok;
\* "ok_false": data.ok === false; "no_id": success with no result, or with a
\* result object that has no message_id; "null_id": success with result null
\* or with message_id null; "falsy_result": success with result false, 0 or
\* "" (the field result says which); "ok": success with
\* result.message_id = nid. Telegram accepts at most
\* MaxMsgs messages.
SendResponses(nid) ==
    {[kind |-> "transport"], [kind |-> "unparseable"], [kind |-> "status"],
     [kind |-> "ok_false"], [kind |-> "no_id"], [kind |-> "null_id"]}
    \cup (IF nid <= MaxMsgs
          THEN {[kind |-> "ok", message_id |-> nid]}
               \cup {[kind |-> "falsy_result", result |-> r] : r \in FalsyResults}
          ELSE {})

\* the message a send was answered for has been accepted by Telegram
Accepted(resp) == resp.kind \in {"ok", "falsy_result"}

\* tgSendStream(stream): what it returns (or that it threw) and the ledger after it
TgSendStream(ledger, resp, t) ==
    CASE resp.kind = "transport" ->
            \* await fetch(...) / await res.text() is outside any try block
            [raised |-> TRUE, ret |-> RetUndefined, ledger |-> ledger]
      [] resp.kind = "unparseable" ->
            [raised |-> FALSE, ret |-> RetNull, ledger |-> ledger]
      [] resp.kind \in {"status", "ok_false"} ->
            [raised |-> FALSE, ret |-> RetNull, ledger |-> ledger]
      [] resp.kind = "no_id" ->
            \* data.result && data.result.message_id is undefined
            [raised |-> FALSE, ret |-> RetUndefined, ledger |-> ledger]
      [] resp.kind = "null_id" ->
            \* messageId is null: null != null is false, return messageId
            [raised |-> FALSE, ret |-> RetNull, ledger |-> ledger]
      [] resp.kind = "falsy_result" ->
            \* messageId is data.result itself, which is != null: it is pushed
            [raised |-> FALSE, ret |-> resp.result,
             ledger |-> Append(ledger, [chatId |-> CHAT,
                                        messageId |-> resp.result,
                                        sentAt |-> t])]
      [] OTHER ->
            [raised |-> FALSE, ret |-> RetId(resp.message_id),
             ledger |-> Append(ledger, [chatId |-> CHAT,
                                        messageId |-> RetId(resp.message_id),
                                        sentAt |-> t])]

\* tgSend(text): sendMessage; the body is read only to log a non-ok status
TgSend(ledger, resp, t) ==
    IF resp.kind = "transport"
    THEN [raised |-> TRUE, ret |-> RetUndefined, ledger |-> ledger]
    ELSE [raised |-> FALSE, ret |-> RetUndefined, ledger |-> ledger]

\* variant: main() awaits tgSendStream of methods.js for a transition
Dispatch_Stream(ledger, resp, t) == TgSendStream(ledger, resp, t)

\* await tgSend(formatMsg(liveNow[uid])): the send the poll loop awaits for a
\* transition
Dispatch(ledger, resp, t) == TgSend(ledger, resp, t)

\* deleteTelegramMessage(chatId, messageId): true / false, never throws
DeleteTelegramMessage(resp) == resp = "ok"
DeleteResponses == {"ok", "transport", "status", "ok_false"}

\* sentMessages.findIndex(x => x.messageId === m.messageId && x.chatId === m.chatId);
\* 0 stands for -1
FindIndex(ledger, m) ==
    LET hits == {j \in 1..Len(ledger) :
                    /\ ledger[j].messageId = m.messageId
                    /\ ledger[j].chatId = m.chatId}
    IN  IF hits = {} THEN 0 ELSE CHOOSE j \in hits : \A h \in hits : j <= h

\* sentMessages.splice(idx, 1)
Splice(ledger, idx) ==
    [j \in 1..(Len(ledger) - 1) |-> IF j < idx THEN ledger[j] ELSE ledger[j + 1]]

\* the record splice(idx, 1) takes out of the array, if idx !== -1
Spliced(ledger, m) ==
    LET idx == FindIndex(ledger, m)
    IN  IF idx # 0 THEN {ledger[idx]} ELSE {}

\* if (idx !== -1) sentMessages.splice(idx, 1)
RemoveRecord(ledger, m) ==
    LET idx == FindIndex(ledger, m)
    IN  IF idx # 0 THEN Splice(ledger, idx) ELSE ledger

\* sentMessages.filter(m => m.sentAt <= cutoff)
ToDelete(ledger, cutoff) ==
    SelectSeq(ledger, LAMBDA m : m.sentAt <= cutoff)

Range(s) == {s[j] : j \in 1..Len(s)}

\* ---------------------------------------------------- history of a segment
\* the tick in progress: wasLive when it began, whether getLiveStreams returned
\* and what, the ids a send was called for, the ids whose send did not deliver
NoTick == [fetched |-> FALSE, was |-> << >>, live |-> {}, sent |-> {}, failed |-> {}]
\* what is remembered of the tick before it
NoPrev == [fetched |-> FALSE, live |-> {}, failed |-> {}]
NoHdr == [called |-> FALSE, held |-> FALSE, cmp |-> "none", refreshed |-> FALSE]
NoAcq == [called |-> FALSE, resp |-> [kind |-> "none"]]
NoDisp == [called |-> FALSE, uid |-> 0, resp |-> [kind |-> "none"],
           raised |-> FALSE, ret |-> RetUndefined, before |-> << >>]

\* history: Telegram acknowledged a sendPhoto with a message identifier at time t
Acked(log, resp, t) ==
    IF resp.kind = "ok"
    THEN Append(log, [chatId |-> CHAT, messageId |-> RetId(resp.message_id),
                      sentAt |-> t])
    ELSE log
NoEv == [op |-> "none", hdr |-> NoHdr, acq |-> NoAcq, req |-> "none",
         lookup |-> "none", disp |-> NoDisp,
         sweep |-> [cutoff |-> 0, selected |-> << >>, processed |-> << >>,
                    removed |-> {}, seen |-> {}],
         tick |-> NoTick, prev |-> NoPrev, arg |-> << >>, out |-> << >>]

\* the history of one twitchHeaders() call made at time t with credential cred
HdrEv(cred, h, t) ==
    [called |-> TRUE, held |-> cred.token # Null,
     cmp |-> IF t < cred.expiresAt THEN "before"
             ELSE IF t = cred.expiresAt THEN "at" ELSE "after",
     refreshed |-> h.refreshed]
AcqEv(called, resp) ==
    IF called THEN [called |-> TRUE, resp |-> resp] ELSE NoAcq


Init ==
    /\ now = StartMs
    /\ TWITCH_TOKEN = Null
    /\ TWITCH_TOKEN_EXPIRES_AT = 0
    /\ issued = [at |-> 0, L |-> 0]
    /\ sentMessages = << >>
    /\ nextMsgId = 1
    /\ notifier = "tgSend"
    /\ pc = "load"
    /\ exitCode = -1
    /\ logins \in LoginConfigs
    /\ ids = << >>
    /\ wasLive = << >>
    /\ liveNow = {}
    /\ i = 0
    /\ k = 1
    /\ stopped = FALSE
    /\ wake = 0
    /\ calls = << >>
    /\ timerOn = FALSE
    /\ nextFire = << >>
    /\ timerList = << >>
    /\ sweeps = << >>
    /\ attempts = [m \in MessageIds |-> 0]
    /\ failedDel = {}
    /\ retried = {}
    /\ acked = << >>
    /\ swept = {}
    /\ tick = NoTick
    /\ prev = NoPrev
    /\ ev = NoEv

\* ------------------------------------------------------------- main()
Running == pc # "exited"

\* process.exit(code)
Exit(code) ==
    /\ pc' = "exited"
    /\ exitCode' = code

\* variant: a batch takes one identifier more, which the next batch sends again
Batch_Overlap(seq, off) == SubSeq(seq, off + 1, Min(off + BatchSize + 1, Len(seq)))

\* logins.slice(i, i + 100) / userIds.slice(i, i + 100)
Batch(seq, off) == SubSeq(seq, off + 1, Min(off + BatchSize, Len(seq)))

\* the token responses a twitchHeaders() call may consume
HeaderInputs == IF NeedsRefresh(Cred, now) THEN TokenResponses ELSE {[kind |-> "unused"]}

\* the logins of a batch that /helix/users can report
Existing(batch) == SelectSeq(batch, LAMBDA l : l \in Users)

\* the lists that name each element of S once
Orderings(S) ==
    {f \in [1..Cardinality(S) -> S] : \A x \in S : \E j \in DOMAIN f : f[j] = x}

\* Responses of GET /helix/users for a batch: data lists some of the logins
\* of the batch, in the order Twitch chooses
UserResponses(batch) ==
    {[kind |-> "transport"], [kind |-> "status"]}
    \cup {[kind |-> "ok", data |-> d] :
            d \in UNION {Orderings(S) : S \in SUBSET Range(batch)}}

\* for (const u of data.data) map[u.login.toLowerCase()] = u.id, and then
\* Object.values(map): the ids in the order their logins were first written
\* (the logins that exist are not integer-like keys)
MapValues(vals, data) ==
    vals \o SelectSeq([j \in 1..Len(data) |-> IdOf(data[j])],
                      LAMBDA u : u \notin Range(vals))

\* Responses of GET /helix/streams for a batch
LookupResponses(batch) ==
    {[kind |-> "transport"], [kind |-> "status"]}
    \cup {[kind |-> "ok", data |-> S] : S \in SUBSET Range(batch)}

\* variant: the loop is `while (true)`: the stop flag is not looked at
LoopHead_IgnoreStop ==
    /\ pc' = "fetch"
    /\ exitCode' = exitCode
    /\ liveNow' = {}
    /\ i' = 0
    /\ k' = 1
    /\ prev' = prev
    /\ tick' = [NoTick EXCEPT !.was = wasLive']

\* while (!stopped) { try { const liveNow = await getLiveStreams(ids); ...
\* up to the first await; after the loop, process.exit(0)
LoopHead ==
    IF stopped
    THEN /\ Exit(0)
         /\ UNCHANGED <<liveNow, i, k, tick, prev>>
    ELSE /\ pc' = "fetch"
         /\ exitCode' = exitCode
         /\ liveNow' = {}
         /\ i' = 0
         /\ k' = 1
         /\ prev' = prev
         /\ tick' = [NoTick EXCEPT !.was = wasLive']

\* the environment variables index.js requires
RequiredEnv == {"TELEGRAM_BOT_TOKEN", "TELEGRAM_CHAT_ID", "TWITCH_CLIENT_ID",
                "TWITCH_CLIENT_SECRET", "TWITCH_LOGINS"}

\* what process.env holds for a name: nothing, "", white space only, or text
EnvValues == {"unset", "empty", "blank", "text"}

\* requireEnv(name, value): !value || String(value).trim() === ""
Missing(value) == value \in {"unset", "empty"} \/ value = "blank"

\* The module is loaded: the five requireEnv calls, then main() is called.
\* A variable that is missing or blank ends the process with code 1.
RequireEnv ==
    /\ pc = "load"
    /\ \E env \in [RequiredEnv -> EnvValues] :
          IF \E name \in RequiredEnv : Missing(env[name])
          THEN Exit(1)
          ELSE pc' = "init" /\ exitCode' = exitCode
    /\ ev' = [NoEv EXCEPT !.op = "load"]
    /\ UNCHANGED <<calls, now, tokenVars, sentMessages, nextMsgId, notifier, logins,
                   ids, wasLive, liveNow, i, k, stopped, wake, sweepVars, tickVars>>

\* main(): parse TWITCH_LOGINS, leave when there is none
Startup ==
    /\ pc = "init"
    /\ IF Len(logins) = 0
       THEN Exit(1)
       ELSE pc' = "resolve" /\ exitCode' = exitCode
    /\ i' = 0
    /\ ev' = NoEv
    /\ UNCHANGED <<calls, now, tokenVars, sentMessages, nextMsgId, notifier, logins,
                   ids, wasLive, liveNow, k, stopped, wake, sweepVars, tickVars>>

\* getUserIds(logins), `headers: await twitchHeaders()` of one batch when a
\* refresh is due: the answer of the authorization endpoint arrives. A failed
\* acquisition reaches main().catch: exit(1); otherwise the users request of
\* the batch is sent and awaited.
ResolveToken ==
    /\ pc = "resolve"
    /\ NeedsRefresh(Cred, now)
    /\ \E tresp \in TokenResponses :
        LET h == TwitchHeaders(Cred, tresp, now)
        IN  /\ SetCred(h.cred)
            /\ ev' = [NoEv EXCEPT !.op = "resolve_token",
                                  !.hdr = HdrEv(Cred, h, now),
                                  !.acq = AcqEv(h.refreshed, tresp)]
            /\ IF h.raised
               THEN Exit(1)
               ELSE pc' = "users" /\ exitCode' = exitCode
    /\ UNCHANGED <<calls, now, sentMessages, nextMsgId, notifier, logins, ids,
                   wasLive, liveNow, i, k, stopped, wake, sweepVars, tickVars>>

\* variant: main() does not look at ids.length before it starts to poll
ResolveBatch_NoIdCheck ==
    /\ \/ pc = "resolve" /\ ~NeedsRefresh(Cred, now)
       \/ pc = "users"
    /\ \E uresp \in UserResponses(Existing(Batch(logins, i))) :
        LET failed == uresp.kind # "ok"
            newIds == IF failed THEN ids ELSE MapValues(ids, uresp.data)
            done == i + BatchSize >= Len(logins)
        IN  /\ ev' = [NoEv EXCEPT !.op = "resolve",
                                  !.hdr = IF pc = "resolve"
                                          THEN HdrEv(Cred, [refreshed |-> FALSE], now)
                                          ELSE NoHdr,
                                  !.req = TWITCH_TOKEN,
                                  !.lookup = uresp.kind]
            /\ IF failed
               THEN /\ Exit(1)
                    /\ UNCHANGED <<ids, wasLive, liveNow, i, k, tick, prev>>
               ELSE /\ ids' = newIds
                    /\ IF ~done
                       THEN /\ i' = i + BatchSize
                            /\ pc' = "resolve"
                            /\ UNCHANGED <<exitCode, wasLive, liveNow, k, tick, prev>>
                       ELSE /\ wasLive' = [u \in Range(newIds) |-> FALSE]
                            /\ LoopHead
    /\ UNCHANGED <<calls, now, tokenVars, sentMessages, nextMsgId, notifier, logins,
                   stopped, wake, sweepVars>>

\* getUserIds(logins): the answer of the users request of one batch; after the
\* last one, the rest of main() up to the first await of the poll loop. An
\* error reaches main().catch: exit(1).
ResolveBatch ==
    /\ \/ pc = "resolve" /\ ~NeedsRefresh(Cred, now)
       \/ pc = "users"
    /\ \E uresp \in UserResponses(Existing(Batch(logins, i))) :
        LET failed == uresp.kind # "ok"
            newIds == IF failed THEN ids ELSE MapValues(ids, uresp.data)
            done == i + BatchSize >= Len(logins)
        IN  /\ ev' = [NoEv EXCEPT !.op = "resolve",
                                  !.hdr = IF pc = "resolve"
                                          THEN HdrEv(Cred, [refreshed |-> FALSE], now)
                                          ELSE NoHdr,
                                  !.req = TWITCH_TOKEN,
                                  !.lookup = uresp.kind]
            /\ IF failed
               THEN /\ Exit(1)
                    /\ UNCHANGED <<ids, wasLive, liveNow, i, k, tick, prev>>
               ELSE /\ ids' = newIds
                    /\ IF ~done
                       THEN /\ i' = i + BatchSize
                            /\ pc' = "resolve"
                            /\ UNCHANGED <<exitCode, wasLive, liveNow, k, tick, prev>>
                       ELSE IF Len(newIds) = 0
                       THEN /\ Exit(1)
                            /\ UNCHANGED <<wasLive, liveNow, i, k, tick, prev>>
                       ELSE /\ wasLive' = [u \in Range(newIds) |-> FALSE]
                            /\ LoopHead
    /\ UNCHANGED <<calls, now, tokenVars, sentMessages, nextMsgId, notifier, logins,
                   stopped, wake, sweepVars>>

\* the accounts that may be broadcasting: /helix/streams reports no other;
\* the last account of the first batch of ManyIds is one of them
Streamers == {1, 2} \cup {ManyIds[BatchSize]}
Streaming(batch) == SelectSeq(batch, LAMBDA u : u \in Streamers)

\* getLiveStreams(ids), `headers: await twitchHeaders()` of one batch when a
\* refresh is due: the answer of the authorization endpoint arrives. A failed
\* acquisition is caught by the loop's catch; otherwise the streams request
\* of the batch is sent and awaited.
FetchToken ==
    /\ pc = "fetch"
    /\ NeedsRefresh(Cred, now)
    /\ \E tresp \in TokenResponses :
        LET h == TwitchHeaders(Cred, tresp, now)
        IN  /\ SetCred(h.cred)
            /\ ev' = [NoEv EXCEPT !.op = "fetch_token",
                                  !.hdr = HdrEv(Cred, h, now),
                                  !.acq = AcqEv(h.refreshed, tresp)]
            /\ pc' = IF h.raised THEN "catch" ELSE "streams"
    /\ UNCHANGED <<calls, now, sentMessages, nextMsgId, notifier, exitCode, logins,
                   ids, wasLive, liveNow, i, k, stopped, wake, sweepVars,
                   tickVars>>

\* variant: a batch that fails after an earlier batch succeeded is dropped and
\* the tick goes on with the accounts found live so far
FetchBatch_KeepPartial ==
    /\ \/ pc = "fetch" /\ ~NeedsRefresh(Cred, now)
       \/ pc = "streams"
    /\ \E sresp \in LookupResponses(Streaming(Batch(ids, i))) :
        LET failed == sresp.kind # "ok"
            live == IF failed THEN liveNow ELSE liveNow \cup sresp.data
            done == i + BatchSize >= Len(ids)
        IN  /\ ev' = [NoEv EXCEPT !.op = "fetch",
                                  !.hdr = IF pc = "fetch"
                                          THEN HdrEv(Cred, [refreshed |-> FALSE], now)
                                          ELSE NoHdr,
                                  !.req = TWITCH_TOKEN,
                                  !.lookup = sresp.kind]
            /\ IF failed /\ i = 0
               THEN /\ pc' = "catch"
                    /\ UNCHANGED <<liveNow, i, k, tick>>
               ELSE IF failed
               THEN /\ pc' = "notify"
                    /\ k' = 1
                    /\ UNCHANGED <<liveNow, i, tick>>
               ELSE /\ liveNow' = live
                    /\ i' = i + BatchSize
                    /\ k' = 1
                    /\ pc' = IF done THEN "notify" ELSE "fetch"
                    /\ tick' = IF done
                               THEN [tick EXCEPT !.fetched = TRUE, !.live = live]
                               ELSE tick
    /\ UNCHANGED <<calls, now, tokenVars, sentMessages, nextMsgId, notifier, exitCode,
                   logins, ids, wasLive, stopped, wake, sweepVars, prev>>

\* getLiveStreams(ids): the answer of the streams request of one batch
\* arrives; the request carried the token held when it was sent. An error is
\* caught by the loop's catch.
FetchBatch ==
    /\ \/ pc = "fetch" /\ ~NeedsRefresh(Cred, now)
       \/ pc = "streams"
    /\ \E sresp \in LookupResponses(Streaming(Batch(ids, i))) :
        LET failed == sresp.kind # "ok"
            live == IF failed THEN liveNow ELSE liveNow \cup sresp.data
            done == i + BatchSize >= Len(ids)
        IN  /\ ev' = [NoEv EXCEPT !.op = "fetch",
                                  !.hdr = IF pc = "fetch"
                                          THEN HdrEv(Cred, [refreshed |-> FALSE], now)
                                          ELSE NoHdr,
                                  !.req = TWITCH_TOKEN,
                                  !.lookup = sresp.kind]
            /\ IF failed
               THEN /\ pc' = "catch"
                    /\ UNCHANGED <<liveNow, i, k, tick>>
               ELSE /\ liveNow' = live
                    /\ i' = i + BatchSize
                    /\ k' = 1
                    /\ pc' = IF done THEN "notify" ELSE "fetch"
                    /\ tick' = IF done
                               THEN [tick EXCEPT !.fetched = TRUE, !.live = live]
                               ELSE tick
    /\ UNCHANGED <<calls, now, tokenVars, sentMessages, nextMsgId, notifier, exitCode,
                   logins, ids, wasLive, stopped, wake, sweepVars, prev>>

\* a send that did not deliver: it threw, or it logged an error
SendFailed(resp) ==
    IF notifier = "tgSendStream"
    THEN resp.kind \in {"transport", "unparseable", "status", "ok_false"}
    ELSE resp.kind \in {"transport", "status"}

\* await new Promise(r => setTimeout(r, delayMs))
Sleep ==
    /\ pc' = "sleep"
    /\ wake' = now + delayMs

\* history: the tick tk ends here; ev shows it whole, prev keeps its summary
EndTick(op, tk, e) ==
    /\ ev' = [e EXCEPT !.op = op, !.tick = tk, !.prev = prev]
    /\ prev' = [fetched |-> tk.fetched, live |-> tk.live, failed |-> tk.failed]
    /\ tick' = NoTick

\* variant: an account once recorded as live stays recorded as live
Record_Sticky(was, uid, isLive) == [was EXCEPT ![uid] = @ \/ isLive]

\* wasLive[uid] = isLive
Record(was, uid, isLive) == [was EXCEPT ![uid] = isLive]

\* One iteration of `for (const uid of ids)`: the send, when it is called, and
\* what follows its response. After the last iteration the sleep starts; a
\* send that throws leaves the loop for the catch block.
NotifyStep ==
    /\ pc = "notify"
    /\ LET uid == ids[k]
           isLive == uid \in liveNow
           needs == isLive /\ ~wasLive[uid]
           last == k + 1 > Len(ids)
       IN  \E resp \in (IF needs THEN SendResponses(nextMsgId)
                                 ELSE {[kind |-> "unused"]}) :
            LET d == IF needs THEN Dispatch(sentMessages, resp, now)
                     ELSE [raised |-> FALSE, ret |-> RetUndefined,
                           ledger |-> sentMessages]
                tk == IF needs
                      THEN [tick EXCEPT !.sent = @ \cup {uid},
                                        !.failed = IF SendFailed(resp)
                                                   THEN @ \cup {uid} ELSE @]
                      ELSE tick
                e == IF needs
                     THEN [NoEv EXCEPT !.disp = [called |-> TRUE, uid |-> uid,
                                                 resp |-> resp, raised |-> d.raised,
                                                 ret |-> d.ret,
                                                 before |-> sentMessages]]
                     ELSE NoEv
            IN  /\ sentMessages' = d.ledger
                /\ IF d.raised
                   THEN /\ pc' = "catch"
                        /\ tick' = tk
                        /\ ev' = [e EXCEPT !.op = "notify"]
                        /\ UNCHANGED <<wasLive, k, wake, prev>>
                   ELSE /\ wasLive' = Record(wasLive, uid, isLive)
                        /\ k' = k + 1
                        /\ IF last
                           THEN Sleep /\ EndTick("tick_end", tk, e)
                           ELSE /\ tick' = tk
                                /\ ev' = [e EXCEPT !.op = "notify"]
                                /\ UNCHANGED <<pc, wake, prev>>
    /\ UNCHANGED <<calls, now, tokenVars, nextMsgId, notifier, exitCode, logins,
                   ids, liveNow, i, stopped, sweepVars>>

\* variant: the refresh in the catch block is not guarded by its own try, so
\* its error reaches main().catch: exit(1)
CatchRefresh_Rethrow ==
    /\ pc = "catch"
    /\ \E resp \in TokenResponses :
        LET r == GetAppToken(Cred, resp, now)
        IN  /\ SetCred(r.cred)
            /\ EndTick("tick_abort", tick, [NoEv EXCEPT !.acq = AcqEv(TRUE, resp)])
            /\ IF r.raised
               THEN Exit(1) /\ wake' = wake
               ELSE Sleep /\ exitCode' = exitCode
    /\ UNCHANGED <<calls, now, sentMessages, nextMsgId, notifier, logins,
                   ids, wasLive, liveNow, i, k, stopped, sweepVars>>

\* catch (err) { console.error(...); try { await getAppToken(); } catch (e2) {...} }
\* and then the sleep
CatchRefresh ==
    /\ pc = "catch"
    /\ \E resp \in TokenResponses :
        LET r == GetAppToken(Cred, resp, now)
        IN  /\ SetCred(r.cred)
            /\ EndTick("tick_abort", tick, [NoEv EXCEPT !.acq = AcqEv(TRUE, resp)])
    /\ Sleep
    /\ UNCHANGED <<calls, now, sentMessages, nextMsgId, notifier, exitCode, logins,
                   ids, wasLive, liveNow, i, k, stopped, sweepVars>>

\* variant: the loop does not await the sleep before it goes round
Wake_Early ==
    /\ pc = "sleep"
    /\ ids' = ids
    /\ wasLive' = wasLive
    /\ LoopHead
    /\ ev' = NoEv
    /\ UNCHANGED <<calls, now, tokenVars, sentMessages, nextMsgId, notifier, logins,
                   stopped, wake, sweepVars>>

\* the setTimeout fires: back to the loop's condition
Wake ==
    /\ pc = "sleep"
    /\ now >= wake
    /\ ids' = ids
    /\ wasLive' = wasLive
    /\ LoopHead
    /\ ev' = NoEv
    /\ UNCHANGED <<calls, now, tokenVars, sentMessages, nextMsgId, notifier, logins,
                   stopped, wake, sweepVars>>

\* process.on("SIGINT" / "SIGTERM", () => { stopped = true; ... })
Signal ==
    /\ pc \in {"fetch", "streams", "notify", "catch", "sleep"}
    /\ ~stopped
    /\ stopped' = TRUE
    /\ ev' = NoEv
    /\ UNCHANGED <<calls, now, tokenVars, sentMessages, nextMsgId, notifier, pc,
                   exitCode, logins, ids, wasLive, liveNow, i, k, wake,
                   sweepVars, tickVars>>

\* ------------------------------------------------- startDeletionLoop()
\* the history of a finished callback
SweepEv(sw, processed) ==
    [cutoff |-> sw.cutoff, selected |-> sw.selected, processed |-> processed,
     removed |-> sw.removed, seen |-> sw.seen]


\* history: deleteTelegramMessage is called for m (fetch is issued)
Attempt(m) ==
    /\ attempts' = [attempts EXCEPT ![m.messageId] = @ + 1]
    /\ retried' = IF m.messageId \in failedDel' THEN retried \cup {m.messageId}
                  ELSE retried

\* The interval whose callback runs next. The runtime keeps the timers of one
\* duration in a list in the order they were armed and runs them from its
\* head: the earliest deadline, and of equal deadlines the one armed first.
DueTimer == Head(timerList)

\* The setInterval callback up to its first await: select the old records and
\* call deleteTelegramMessage for the first of them.
SweepFire ==
    /\ Running
    /\ timerOn
    /\ now >= nextFire[DueTimer]
    /\ failedDel' = failedDel
    /\ nextFire' = [nextFire EXCEPT ![DueTimer] = now + threeHOURs]
    /\ timerList' = Append(Tail(timerList), DueTimer)
    /\ LET cutoff == now - threeHOURs
           toDelete == ToDelete(sentMessages, cutoff)
           sw == [todo |-> toDelete, cutoff |-> cutoff, selected |-> toDelete,
                  removed |-> {}, seen |-> Range(sentMessages)]
       IN  IF Len(toDelete) = 0
           THEN /\ ev' = [NoEv EXCEPT !.op = "sweep_none", !.sweep = SweepEv(sw, << >>)]
                /\ UNCHANGED <<sweeps, attempts, retried>>
           ELSE /\ sweeps' = Append(sweeps, sw)
                /\ Attempt(toDelete[1])
                /\ ev' = [NoEv EXCEPT !.op = "sweep_fire", !.sweep = SweepEv(sw, << >>)]
    /\ UNCHANGED <<calls, now, tokenVars, sentMessages, nextMsgId, notifier, pc,
                   exitCode, logins, ids, wasLive, liveNow, i, k, stopped, wake,
                   timerOn, acked, swept, tickVars>>

\* variant: a record whose deletion failed is kept for a later firing
SweepReply_KeepFailed ==
    /\ Running
    /\ \E j \in 1..Len(sweeps), resp \in DeleteResponses :
        LET sw == sweeps[j]
            m == sw.todo[1]
            deleted == DeleteTelegramMessage(resp)
            ledger == IF deleted THEN RemoveRecord(sentMessages, m) ELSE sentMessages
            gone == IF deleted THEN Spliced(sentMessages, m) ELSE {}
            rest == Tail(sw.todo)
            sw2 == [sw EXCEPT !.todo = rest, !.removed = @ \cup gone]
            others == [n \in 1..(Len(sweeps) - 1) |->
                         IF n < j THEN sweeps[n] ELSE sweeps[n + 1]]
        IN  /\ sentMessages' = ledger
            /\ swept' = swept \cup gone
            /\ failedDel' = IF deleted THEN failedDel
                            ELSE failedDel \cup {m.messageId}
            /\ IF Len(rest) = 0
               THEN /\ sweeps' = others
                    /\ UNCHANGED <<attempts, retried>>
                    /\ ev' = [NoEv EXCEPT !.op = "sweep_end", !.sweep = SweepEv(sw2, <<m>>)]
               ELSE /\ sweeps' = [sweeps EXCEPT ![j] = sw2]
                    /\ Attempt(rest[1])
                    /\ ev' = [NoEv EXCEPT !.op = "sweep_step", !.sweep = SweepEv(sw2, <<m>>)]
    /\ UNCHANGED <<calls, now, tokenVars, nextMsgId, notifier, pc, exitCode, logins,
                   ids, wasLive, liveNow, i, k, stopped, wake, timerOn, nextFire,
                   timerList, acked, tickVars>>

\* The callback resumes after `await deleteTelegramMessage(...)`: the record is
\* spliced out and the next deletion is called, or the callback returns.
SweepReply ==
    /\ Running
    /\ \E j \in 1..Len(sweeps), resp \in DeleteResponses :
        LET sw == sweeps[j]
            m == sw.todo[1]
            deleted == DeleteTelegramMessage(resp)
            ledger == RemoveRecord(sentMessages, m)
            gone == Spliced(sentMessages, m)
            rest == Tail(sw.todo)
            sw2 == [sw EXCEPT !.todo = rest, !.removed = @ \cup gone]
            others == [n \in 1..(Len(sweeps) - 1) |->
                         IF n < j THEN sweeps[n] ELSE sweeps[n + 1]]
        IN  /\ sentMessages' = ledger
            /\ swept' = swept \cup gone
            /\ failedDel' = IF deleted THEN failedDel
                            ELSE failedDel \cup {m.messageId}
            /\ IF Len(rest) = 0
               THEN /\ sweeps' = others
                    /\ UNCHANGED <<attempts, retried>>
                    /\ ev' = [NoEv EXCEPT !.op = "sweep_end", !.sweep = SweepEv(sw2, <<m>>)]
               ELSE /\ sweeps' = [sweeps EXCEPT ![j] = sw2]
                    /\ Attempt(rest[1])
                    /\ ev' = [NoEv EXCEPT !.op = "sweep_step", !.sweep = SweepEv(sw2, <<m>>)]
    /\ UNCHANGED <<calls, now, tokenVars, nextMsgId, notifier, pc, exitCode, logins,
                   ids, wasLive, liveNow, i, k, stopped, wake, timerOn, nextFire,
                   timerList, acked, tickVars>>

\* ------------------------------------------------------------- the clock
\* the pending timers' deadlines
Deadlines ==
    Range(nextFire)
    \cup (IF pc = "sleep" THEN {wake} ELSE {})

\* Time passes while the poll loop sleeps (its HTTP exchanges are short against
\* the clock's step) and between the calls of a client of methods.js. A due
\* timer runs before the clock moves on: the clock stops at the next deadline.
Advance ==
    /\ pc \in {"sleep", "lib"}
    /\ \A d \in Deadlines : now < d
    /\ LET t == CHOOSE t \in Deadlines \cup {now + StepMs} :
                    \A d \in Deadlines \cup {now + StepMs} : t <= d
       IN  /\ t <= MaxTime
           /\ now' = t
    /\ ev' = NoEv
    /\ UNCHANGED <<calls, tokenVars, sentMessages, nextMsgId, notifier, pc, exitCode,
                   logins, ids, wasLive, liveNow, i, k, stopped, wake, sweepVars,
                   tickVars>>

\* The same clock with half the step, so that a record can be appended
\* between two firings of the timer
AdvanceFine ==
    /\ pc \in {"sleep", "lib"}
    /\ \A d \in Deadlines : now < d
    /\ LET t == CHOOSE t \in Deadlines \cup {now + StepMs \div 2} :
                    \A d \in Deadlines \cup {now + StepMs \div 2} : t <= d
       IN  /\ t <= MaxTime
           /\ now' = t
    /\ ev' = NoEv
    /\ UNCHANGED <<calls, tokenVars, sentMessages, nextMsgId, notifier, pc, exitCode,
                   logins, ids, wasLive, liveNow, i, k, stopped, wake, sweepVars,
                   tickVars>>

\* ------------------------------------------- methods.js under any caller
\* A caller of the module calls startDeletionLoop(): setInterval(..., threeHOURs).
\* Every call registers one more interval.
StartDeletionLoop ==
    /\ pc = "lib"
    /\ Len(nextFire) < MaxTimers
    /\ timerOn' = TRUE
    /\ nextFire' = Append(nextFire, now + threeHOURs)
    /\ timerList' = Append(timerList, Len(nextFire) + 1)
    /\ ev' = NoEv
    /\ UNCHANGED <<calls, now, tokenVars, sentMessages, nextMsgId, notifier, pc,
                   exitCode, logins, ids, wasLive, liveNow, i, k, stopped, wake,
                   sweeps, attempts, failedDel, retried, swept, acked, tickVars>>

\* A caller of the module awaits tgSendStream(stream)
SendStream ==
    /\ Running
    /\ \E resp \in SendResponses(nextMsgId) :
        LET d == TgSendStream(sentMessages, resp, now)
            added == Range(d.ledger) \ Range(sentMessages)
        IN  /\ sentMessages' = d.ledger
            /\ nextMsgId' = IF Accepted(resp) THEN nextMsgId + 1 ELSE nextMsgId
            /\ acked' = Acked(acked, resp, now)
            /\ sweeps' = [j \in 1..Len(sweeps) |->
                            [sweeps[j] EXCEPT !.seen = @ \cup added]]
            /\ ev' = [NoEv EXCEPT !.op = "send",
                                  !.disp = [called |-> TRUE, uid |-> 0,
                                            resp |-> resp, raised |-> d.raised,
                                            ret |-> d.ret,
                                            before |-> sentMessages]]
    /\ UNCHANGED <<calls, now, tokenVars, notifier, pc, exitCode, logins, ids, wasLive,
                   liveNow, i, k, stopped, wake, timerOn, nextFire, timerList,
                   attempts, failedDel, retried, swept, tickVars>>

\* --------------------------------------------- the functions, one by one
\* n identifiers, all different
Identifiers(n) == [j \in 1..n |-> j]

\* A caller calls getUserIds(logins) or getLiveStreams(userIds); ev.arg is the
\* argument, ev.out the batches of the requests sent so far
LookupCall ==
    /\ pc = "lib"
    /\ \E fn \in {"getUserIds", "getLiveStreams"}, n \in 0..MaxIds :
          ev' = [NoEv EXCEPT !.op = fn, !.arg = Identifiers(n)]
    /\ pc' = "lookup"
    /\ i' = 0
    /\ UNCHANGED <<calls, now, tokenVars, sentMessages, nextMsgId, notifier, exitCode,
                   logins, ids, wasLive, liveNow, k, stopped, wake, sweepVars,
                   tickVars>>

\* for (...) { ... headers: await twitchHeaders() ... }: a refresh is due and
\* the answer of the authorization endpoint arrives. A failed acquisition
\* ends the call with an error; otherwise the request of the batch is sent.
LookupToken ==
    /\ pc = "lookup"
    /\ i < Len(ev.arg)
    /\ NeedsRefresh(Cred, now)
    /\ \E tresp \in TokenResponses :
        LET h == TwitchHeaders(Cred, tresp, now)
        IN  /\ SetCred(h.cred)
            /\ ev' = [ev EXCEPT !.hdr = HdrEv(Cred, h, now),
                                !.acq = AcqEv(h.refreshed, tresp),
                                !.req = "none",
                                !.lookup = IF h.raised THEN "token_failed" ELSE @]
            /\ pc' = IF h.raised THEN "lib" ELSE "lookup_req"
            /\ i' = IF h.raised THEN 0 ELSE i
    /\ UNCHANGED <<calls, now, sentMessages, nextMsgId, notifier, exitCode, logins,
                   ids, wasLive, liveNow, k, stopped, wake, sweepVars, tickVars>>

\* the answers of GET /helix/users and GET /helix/streams, by their kind
LookupKinds == {"ok", "status", "transport"}

\* for (let i = 0; i < n; i += 100) { batch = slice(i, i + 100); fetch(...) }:
\* the request of the batch was sent and its answer arrives;
\* if (!res.ok) throw ends the call with an error
LookupRequest ==
    /\ \/ pc = "lookup" /\ i < Len(ev.arg) /\ ~NeedsRefresh(Cred, now)
       \/ pc = "lookup_req"
    /\ \E kind \in LookupKinds :
          /\ ev' = [ev EXCEPT !.out = Append(@, Batch(ev.arg, i)),
                              !.hdr = IF pc = "lookup"
                                      THEN HdrEv(Cred, [refreshed |-> FALSE], now)
                                      ELSE NoHdr,
                              !.acq = NoAcq,
                              !.req = TWITCH_TOKEN,
                              !.lookup = kind]
          /\ pc' = IF kind = "ok" THEN "lookup" ELSE "lib"
          /\ i' = IF kind = "ok" THEN i + BatchSize ELSE 0
    /\ UNCHANGED <<calls, now, tokenVars, sentMessages, nextMsgId, notifier,
                   exitCode, logins, ids, wasLive, liveNow, k, stopped, wake,
                   sweepVars, tickVars>>

\* the loop condition fails: return map / return live; the loop's i is gone
LookupReturn ==
    /\ pc = "lookup"
    /\ i >= Len(ev.arg)
    /\ pc' = "lib"
    /\ i' = 0
    /\ UNCHANGED <<calls, now, tokenVars, sentMessages, nextMsgId, notifier, exitCode,
                   logins, ids, wasLive, liveNow, k, stopped, wake,
                   sweepVars, tickVars, ev>>

\* A caller calls getAppToken(): the request to the authorization endpoint is
\* sent and the call awaits the answer. Calls made before an earlier one has
\* settled are in flight together.
GetAppTokenCall ==
    /\ pc = "lib"
    /\ Len(calls) < MaxCalls
    /\ calls' = Append(calls, [fn |-> "getAppToken", at |-> "fetch", hdr |-> NoHdr])
    /\ ev' = [NoEv EXCEPT !.op = "call"]
    /\ UNCHANGED <<now, tokenVars, sentMessages, nextMsgId, notifier, pc,
                   exitCode, logins, ids, wasLive, liveNow, i, k, stopped, wake,
                   sweepVars, tickVars>>

\* A caller calls twitchHeaders(): with a token that is held and not past its
\* expiry the headers are returned at once (ev.req is their bearer token);
\* otherwise getAppToken() is called and the call awaits it.
TwitchHeadersCall ==
    /\ pc = "lib"
    /\ LET due == NeedsRefresh(Cred, now)
           hdr == HdrEv(Cred, [refreshed |-> due], now)
       IN  IF due
           THEN /\ Len(calls) < MaxCalls
                /\ calls' = Append(calls, [fn |-> "twitchHeaders", at |-> "fetch",
                                           hdr |-> hdr])
                /\ ev' = [NoEv EXCEPT !.op = "call"]
           ELSE /\ calls' = calls
                /\ ev' = [NoEv EXCEPT !.op = "twitchHeaders", !.hdr = hdr,
                                      !.req = TWITCH_TOKEN]
    /\ UNCHANGED <<now, tokenVars, sentMessages, nextMsgId, notifier, pc,
                   exitCode, logins, ids, wasLive, liveNow, i, k, stopped, wake,
                   sweepVars, tickVars>>

\* The answer of the authorization endpoint to a call in flight arrives and
\* getAppToken() runs to its end: it throws, or it stores the token and the
\* expiry, with Date.now() as it is then. A getAppToken() call of the caller
\* ends here and so does a twitchHeaders() call whose getAppToken() threw;
\* any other twitchHeaders() call resumes in a later segment.
TokenReply ==
    /\ pc = "lib"
    /\ \E j \in 1..Len(calls), tresp \in TokenResponses :
        /\ calls[j].at = "fetch"
        /\ LET r == GetAppToken(Cred, tresp, now)
               resumes == calls[j].fn = "twitchHeaders" /\ ~r.raised
           IN  /\ SetCred(r.cred)
               /\ calls' = IF resumes THEN [calls EXCEPT ![j].at = "return"]
                           ELSE [n \in 1..(Len(calls) - 1) |->
                                    IF n < j THEN calls[n] ELSE calls[n + 1]]
               /\ ev' = [NoEv EXCEPT !.op = "getAppToken", !.hdr = calls[j].hdr,
                                     !.acq = AcqEv(TRUE, tresp)]
    /\ UNCHANGED <<now, sentMessages, nextMsgId, notifier, pc, exitCode, logins,
                   ids, wasLive, liveNow, i, k, stopped, wake, sweepVars,
                   tickVars>>

\* twitchHeaders() resumes after `await getAppToken()` and returns the
\* headers with the token that is stored at that moment (ev.req)
HeadersReturn ==
    /\ pc = "lib"
    /\ \E j \in 1..Len(calls) :
        /\ calls[j].at = "return"
        /\ calls' = [n \in 1..(Len(calls) - 1) |->
                        IF n < j THEN calls[n] ELSE calls[n + 1]]
        /\ ev' = [NoEv EXCEPT !.op = "twitchHeaders", !.hdr = calls[j].hdr,
                              !.req = TWITCH_TOKEN]
    /\ UNCHANGED <<now, tokenVars, sentMessages, nextMsgId, notifier, pc,
                   exitCode, logins, ids, wasLive, liveNow, i, k, stopped, wake,
                   sweepVars, tickVars>>

\* A caller calls requireEnv(name, value) of methods.js
RequireEnvCall ==
    /\ pc = "lib"
    /\ \E value \in EnvValues :
          IF Missing(value)
          THEN Exit(1)
          ELSE UNCHANGED <<pc, exitCode>>
    /\ ev' = [NoEv EXCEPT !.op = "requireEnv"]
    /\ UNCHANGED <<calls, now, tokenVars, sentMessages, nextMsgId, notifier, logins,
                   ids, wasLive, liveNow, i, k, stopped, wake, sweepVars, tickVars>>

\* The poll interval. A text is the sequence of its characters. A number is
\* a double as JavaScript has it: NaN, an infinity, or mant * 2^exp with a
\* sign, where mant is a binary numeral of at most 53 bits, most significant
\* bit first, that ends in 1 (<< >> is zero, and exp is 0 then).
NaN == [kind |-> "nan", neg |-> FALSE, mant |-> << >>, exp |-> 0]

\* bits of a double's significand, its least exponent and the exponent it is
\* infinite from
MantBits == 53
MinExp == 0 - 1074
MaxExp == 1024

DecDigits == <<"0", "1", "2", "3", "4", "5", "6", "7", "8", "9">>
HexLower == DecDigits \o <<"a", "b", "c", "d", "e", "f">>
HexUpper == DecDigits \o <<"A", "B", "C", "D", "E", "F">>

\* the value of a digit, 16 for a character that is none
DigitVal(c) ==
    IF \E j \in DOMAIN HexLower : HexLower[j] = c
    THEN (CHOOSE j \in DOMAIN HexLower : HexLower[j] = c) - 1
    ELSE IF \E j \in DOMAIN HexUpper : HexUpper[j] = c
    THEN (CHOOSE j \in DOMAIN HexUpper : HexUpper[j] = c) - 1
    ELSE 16

AllDigits(str, radix) == \A j \in DOMAIN str : DigitVal(str[j]) < radix

\* the one element of a set of one
The(S) == CHOOSE v \in S : TRUE

\* ----- natural numbers as binary numerals: the bits, the most
\* significant first and none of them a leading 0
\* floor(a / 2^n)
BinShr(a, n) == IF n >= Len(a) THEN << >> ELSE SubSeq(a, 1, Len(a) - n)

BinLess(a, b) ==
    \/ Len(a) < Len(b)
    \/ /\ Len(a) = Len(b)
       /\ \E j \in DOMAIN a :
            a[j] < b[j] /\ \A h \in 1..(j - 1) : a[h] = b[h]

\* the numeral of an integer n >= 0, and the integer of a numeral below 2^31
RECURSIVE BinOf(_)
BinOf(n) == IF n = 0 THEN << >> ELSE Append(BinOf(n \div 2), n % 2)
RECURSIVE IntOf(_)
IntOf(a) == IF a = << >> THEN 0 ELSE 2 * IntOf(BinShr(a, 1)) + a[Len(a)]

\* ----- natural numbers of any size, for the arithmetic: the digits to the
\* base 2^15, the least significant first and the last of them not 0
LimbBits == 15
Base == 32768

BigTrim(a) ==
    LET set == {j \in DOMAIN a : a[j] # 0}
    IN  IF set = {} THEN << >>
        ELSE SubSeq(a, 1, CHOOSE j \in set : \A h \in set : h <= j)

\* digit j of a, 0 beyond its last
Limb(a, j) == IF j \in DOMAIN a THEN a[j] ELSE 0

\* a + b: digit j gets a carry when a digit below it overflows and every
\* digit between the two is Base - 1
BigAdd(a, b) ==
    LET carry(j) == \E h \in 1..(j - 1) :
                        /\ Limb(a, h) + Limb(b, h) >= Base
                        /\ \A g \in (h + 1)..(j - 1) :
                              Limb(a, g) + Limb(b, g) = Base - 1
    IN  BigTrim([j \in 1..(Max(Len(a), Len(b)) + 1) |->
                    (Limb(a, j) + Limb(b, j) + (IF carry(j) THEN 1 ELSE 0)) % Base])

\* a * n + carry, for n and carry below Base
BigTimes(a, n, carry) ==
    BigAdd([j \in DOMAIN a |-> (a[j] * n) % Base],
           <<carry>> \o [j \in DOMAIN a |-> (a[j] * n) \div Base])

\* a * radix^n, by halves of n
RECURSIVE BigTimesPow(_, _, _)
BigTimesPow(a, radix, n) ==
    IF n = 0 THEN a
    ELSE IF n = 1 THEN BigTimes(a, radix, 0)
    ELSE The({BigTimesPow(half, radix, n - (n \div 2)) :
                 half \in {BigTimesPow(a, radix, n \div 2)}})

\* a * 2^n
BigShl(a, n) ==
    IF a = << >> THEN << >>
    ELSE [j \in 1..(n \div LimbBits) |-> 0] \o BigTimes(a, 2 ^ (n % LimbBits), 0)

\* the number of bits of a
BigLen(a) ==
    IF a = << >> THEN 0
    ELSE LimbBits * (Len(a) - 1)
            + (CHOOSE n \in 1..LimbBits : a[Len(a)] \div (2 ^ (n - 1)) = 1)

\* a as a binary numeral
BinOfBig(a) ==
    [j \in 1..BigLen(a) |->
        LET p == BigLen(a) - j
        IN  (a[(p \div LimbBits) + 1] \div (2 ^ (p % LimbBits))) % 2]

\* the number a numeral of the radix stands for, by halves of the numeral
RECURSIVE ValueOf(_, _)
ValueOf(str, radix) ==
    LET n == Len(str)
    IN  IF n = 0 THEN << >>
        ELSE IF n = 1 THEN BigTrim(<<DigitVal(str[1])>>)
        ELSE The({BigAdd(BigTimesPow(upper, radix, n - (n \div 2)), lower) :
                     upper \in {ValueOf(SubSeq(str, 1, n \div 2), radix)},
                     lower \in {ValueOf(SubSeq(str, (n \div 2) + 1, n), radix)}})

\* Bits hi down to lo of floor(a / b), for a < b * 2^(hi + 1), and the
\* remainder: bit by bit, by halves of the range. In x - y for x >= y, digit
\* j lends when a digit below it falls short and every digit between the
\* two is 0.
RECURSIVE BigDivMod(_, _, _, _)
BigDivMod(a, b, hi, lo) ==
    IF hi = lo
    THEN LET c == BigShl(b, lo)
             less == \/ Len(a) < Len(c)
                     \/ /\ Len(a) = Len(c)
                        /\ \E j \in DOMAIN a :
                             a[j] < c[j] /\ \A h \in (j + 1)..Len(a) : a[h] = c[h]
             borrow(j) == \E h \in 1..(j - 1) :
                             /\ a[h] < Limb(c, h)
                             /\ \A g \in (h + 1)..(j - 1) : a[g] = Limb(c, g)
         IN  IF less THEN [q |-> <<0>>, r |-> a]
             ELSE [q |-> <<1>>,
                   r |-> BigTrim([j \in DOMAIN a |->
                            (a[j] - Limb(c, j) - (IF borrow(j) THEN 1 ELSE 0) + Base)
                                % Base])]
    ELSE LET mid == (hi + lo + 1) \div 2
         IN  The({The({[q |-> upper.q \o lower.q, r |-> lower.r] :
                          lower \in {BigDivMod(upper.r, b, mid - 1, lo)}}) :
                     upper \in {BigDivMod(a, b, hi, mid)}})

\* ----- doubles
\* zero, and mant * 2^exp with the trailing zeros of mant moved into exp
Finite(negative, mant, exp) ==
    LET ones == {j \in DOMAIN mant : mant[j] = 1}
        last == CHOOSE j \in ones : \A h \in ones : h <= j
    IN  IF ones = {}
        THEN [kind |-> "num", neg |-> negative, mant |-> << >>, exp |-> 0]
        ELSE IF Len(mant) + exp > MaxExp
        THEN [kind |-> "inf", neg |-> negative, mant |-> << >>, exp |-> 0]
        ELSE [kind |-> "num", neg |-> negative, mant |-> SubSeq(mant, 1, last),
              exp |-> exp + (Len(mant) - last)]

\* The double nearest to a * 2^exp, or to a little more than it when more is
\* set: the bits beyond the 53rd, and those below 2^MinExp, are rounded away,
\* a tie to the even neighbour.
Double(negative, a, exp, more) ==
    LET drop == Max(Max(Len(a) - MantBits, MinExp - exp), 0)
        kept == BinShr(a, drop)
        half == drop >= 1 /\ drop <= Len(a) /\ a[Len(a) - drop + 1] = 1
        below == more \/ \E j \in DOMAIN a : j > Len(a) - drop + 1 /\ a[j] = 1
        odd == kept # << >> /\ kept[Len(kept)] = 1
        up == half /\ (below \/ odd)
        \* kept + 1
        zeros == {j \in DOMAIN kept : kept[j] = 0}
        last == CHOOSE j \in zeros : \A h \in zeros : h <= j
        next == IF zeros = {} THEN <<1>> \o [j \in DOMAIN kept |-> 0]
                ELSE [j \in DOMAIN kept |->
                         IF j < last THEN kept[j] ELSE IF j = last THEN 1 ELSE 0]
    IN  Finite(negative, IF up THEN next ELSE kept, exp + drop)

\* the double nearest to num / den
Quotient(negative, num, den) ==
    LET shift == MantBits + 1 - (BigLen(num) - BigLen(den))
        \* the binary numeral of bits that may start with zeros
        BinTrim(a) ==
            IF \A j \in DOMAIN a : a[j] = 0 THEN << >>
            ELSE SubSeq(a, CHOOSE j \in DOMAIN a :
                              a[j] = 1 /\ \A h \in 1..(j - 1) : a[h] = 0, Len(a))
    IN  The({Double(negative, BinTrim(div.q), 0 - shift, div.r # << >>) :
                div \in {BigDivMod(BigShl(num, Max(shift, 0)),
                                   BigShl(den, Max(0 - shift, 0)),
                                   MantBits + 1, 0)}})

\* x * n for an integer n > 0
Product(x, n) ==
    LET a == x.mant
        big == [j \in 1..((Len(a) + LimbBits - 1) \div LimbBits) |->
                   IntOf(SubSeq(a, Max(Len(a) - LimbBits * j + 1, 1),
                                Len(a) - LimbBits * (j - 1)))]
    IN  IF x.kind # "num" THEN x
        ELSE Double(x.neg, BinOfBig(BigTimes(big, n, 0)), x.exp, FALSE)

\* the whole part of |x|, as a numeral
Whole(x) ==
    IF x.exp >= 0 THEN x.mant \o [j \in 1..x.exp |-> 0]
    ELSE BinShr(x.mant, 0 - x.exp)

\* x < n for an integer n >= 0 and a number x that is not NaN
Below(x, n) ==
    IF x.kind = "inf" THEN x.neg
    ELSE (x.neg /\ (x.mant # << >> \/ n > 0)) \/ (~x.neg /\ BinLess(Whole(x), BinOf(n)))

\* ----- Number(str)
\* StrWhiteSpaceChar. A character that cannot be written in a string here
\* goes by its name: "VT" is U+000B, "NBSP" U+00A0, "ZWNBSP" U+FEFF, "LS"
\* U+2028, "PS" U+2029, "USP" any other space separator.
WhiteSpace == {" ", "\t", "\n", "\r", "\f", "VT", "NBSP", "ZWNBSP", "LS", "PS", "USP"}

\* white space is stripped from both ends
RECURSIVE TrimStart(_)
TrimStart(str) ==
    IF str # << >> /\ Head(str) \in WhiteSpace THEN TrimStart(Tail(str)) ELSE str
RECURSIVE TrimEnd(_)
TrimEnd(str) ==
    IF str # << >> /\ str[Len(str)] \in WhiteSpace
    THEN TrimEnd(SubSeq(str, 1, Len(str) - 1))
    ELSE str

\* the first position of str that holds a character of set, 0 if none does
IndexOf(str, set) ==
    IF \E j \in DOMAIN str : str[j] \in set
    THEN CHOOSE j \in DOMAIN str :
            str[j] \in set /\ \A h \in 1..(j - 1) : str[h] \notin set
    ELSE 0

\* 0x, 0o and 0b numerals
RadixOf(c) ==
    IF c \in {"x", "X"} THEN 16
    ELSE IF c \in {"o", "O"} THEN 8
    ELSE IF c \in {"b", "B"} THEN 2
    ELSE 0

\* decimal numerals without their leading zeros
RECURSIVE Significant(_)
Significant(str) ==
    IF str # << >> /\ Head(str) = "0" THEN Significant(Tail(str)) ELSE str

\* digits [. digits] [e [sign] digits], with a digit before the exponent.
\* A numeral below 10^-326 is zero and one from 10^310 infinite.
DecimalLiteral(str, negative) ==
    LET e == IndexOf(str, {"e", "E"})
        mant == IF e = 0 THEN str ELSE SubSeq(str, 1, e - 1)
        expo == IF e = 0 THEN << >> ELSE SubSeq(str, e + 1, Len(str))
        esign == expo # << >> /\ Head(expo) \in {"+", "-"}
        edigits == IF esign THEN Tail(expo) ELSE expo
        dot == IndexOf(mant, {"."})
        ip == IF dot = 0 THEN mant ELSE SubSeq(mant, 1, dot - 1)
        fp == IF dot = 0 THEN << >> ELSE SubSeq(mant, dot + 1, Len(mant))
        wellFormed ==
            /\ AllDigits(ip, 10)
            /\ AllDigits(fp, 10)
            /\ Len(ip) + Len(fp) >= 1
            /\ AllDigits(edigits, 10)
            /\ e # 0 => edigits # << >>
        \* the integer of the digits of the exponent; one of more than 6
        \* digits is beyond every bound
        DecExp == IF Len(Significant(edigits)) > 6 THEN 1000000
                  ELSE IntOf(BinOfBig(ValueOf(Significant(edigits), 10)))
        ex == IF esign /\ Head(expo) = "-" THEN 0 - DecExp ELSE DecExp
        \* the numeral is digits * 10^scale, between 10^(top - 1) and 10^top
        digits == Significant(ip \o fp)
        scale == ex - Len(fp)
        top == Len(digits) + scale
    IN  IF ~wellFormed THEN NaN
        ELSE IF digits = << >> \/ top < 0 - 326 THEN Finite(negative, << >>, 0)
        ELSE IF top > 310 THEN Finite(negative, <<1>>, MaxExp)
        ELSE The({IF scale >= 0 THEN Double(negative, BinOfBig(num), 0, FALSE)
                  ELSE Quotient(negative, num, den) :
                     num \in {BigTimesPow(ValueOf(digits, 10), 10, Max(scale, 0))},
                     den \in {BigTimesPow(<<1>>, 10, Max(0 - scale, 0))}})

\* Number(str) for a string
StringToNumber(str) ==
    LET t == TrimEnd(TrimStart(str))
        signed == t # << >> /\ Head(t) \in {"+", "-"}
        negative == signed /\ Head(t) = "-"
        u == IF signed THEN Tail(t) ELSE t
    IN  IF t = << >> THEN Finite(FALSE, << >>, 0)
        ELSE IF u = <<"I", "n", "f", "i", "n", "i", "t", "y">>
        THEN [NaN EXCEPT !.kind = "inf", !.neg = negative]
        ELSE IF Len(t) >= 3 /\ t[1] = "0" /\ RadixOf(t[2]) # 0
        THEN (IF AllDigits(SubSeq(t, 3, Len(t)), RadixOf(t[2]))
              THEN The({Double(FALSE, BinOfBig(num), 0, FALSE) :
                           num \in {ValueOf(SubSeq(t, 3, Len(t)), RadixOf(t[2]))}})
              ELSE NaN)
        ELSE DecimalLiteral(u, negative)

\* the decimal numeral of n >= 0
RECURSIVE Dec(_)
Dec(n) == IF n < 10 THEN <<DecDigits[n + 1]>>
          ELSE Dec(n \div 10) \o <<DecDigits[(n % 10) + 1]>>

\* process.env.POLL_SECONDS: not set, or a text
PollTexts ==
    {Dec(n) : n \in (0..10) \cup {DefaultPollSec, POLL_SECONDS,
                                  TIMEOUT_MAX \div 1000, MaxPollSec}}
    \cup {<< >>, <<" ">>, <<" ", "7", " ">>, <<"7", ".", "5">>, <<".", "5">>,
          <<"1", "e", "3">>, <<"7", "5", "e", "-", "1">>, <<"0", "x", "1", "0">>,
          <<"0", "b", "1", "1", "1">>, <<"-", "5">>, <<"+", "9">>,
          <<"I", "n", "f", "i", "n", "i", "t", "y">>,
          <<"-", "I", "n", "f", "i", "n", "i", "t", "y">>,
          <<"a", "b", "c">>, <<"1", "0", "s">>, <<"-", "0", "x", "1", "0">>,
          <<"1", "e">>, <<".">>,
          <<"2", "1", "4", "7", "4", "8", "3", ".", "6", "4", "7">>,
          <<"2", "1", "4", "7", "4", "8", "3", ".", "6", "4", "8">>,
          <<"2", "1", "4", "7", "4", "8", "3", ".", "6", "4", "7", "1">>,
          <<"5", ".", "0", "0", "0", "5">>, <<"6", ".", "9", "9", "9", "9">>,
          <<"\t", "7">>, <<"7", "\n">>, <<"\n", "7", "\r", "\n">>,
          <<"VT", "7", "NBSP">>, <<"7", " ", "7">>, <<"1", "e", "2", "1">>,
          <<"1", "e", "4", "0", "0">>, <<"1", "e", "-", "4", "0", "0">>,
          <<"0", "x", "2", "0", "0", "0", "0", "0", "0", "0", "0", "0", "0",
            "0", "0", "0", "1">>}
PollConfigs == {[set |-> FALSE, text |-> << >>]}
                  \cup {[set |-> TRUE, text |-> str] : str \in PollTexts}

\* const { POLL_SECONDS = "60" } = process.env; Number(POLL_SECONDS)
NumberOf(cfg) ==
    IF cfg.set THEN StringToNumber(cfg.text) ELSE StringToNumber(Dec(DefaultPollSec))

\* Math.max(a, x) for an integer a >= 0: NaN when x is NaN
MathMax(a, x) ==
    IF x.kind = "nan" THEN NaN
    ELSE IF Below(x, a) THEN Finite(FALSE, BinOf(a), 0)
    ELSE x

\* Math.max(5, Number(POLL_SECONDS)), in seconds
delaySec(cfg) == MathMax(MinPollSec, NumberOf(cfg))

\* const delayMs = Math.max(5, Number(POLL_SECONDS)) * 1000
delayMsOf(cfg) == Product(delaySec(cfg), 1000)

\* setTimeout(r, x): the milliseconds after which r is called. A delay that
\* is NaN, below 1 or above TIMEOUT_MAX is replaced by 1; of any other the
\* timer takes the whole milliseconds.
TimeoutAfter(x) ==
    LET above == /\ ~x.neg
                 /\ \/ BinLess(BinOf(TIMEOUT_MAX), Whole(x))
                    \/ (Whole(x) = BinOf(TIMEOUT_MAX) /\ x.exp < 0)
    IN  IF x.kind # "num" \/ Below(x, 1) \/ above THEN 1 ELSE IntOf(Whole(x))

\* the sleep between two ticks with POLL_SECONDS = cfg; ev.out is its length
SleepCall ==
    /\ pc = "lib"
    /\ \E cfg \in PollConfigs :
          ev' = [NoEv EXCEPT !.op = "sleep", !.arg = cfg,
                             !.out = TimeoutAfter(delayMsOf(cfg))]
    /\ UNCHANGED <<calls, now, tokenVars, sentMessages, nextMsgId, notifier, pc,
                   exitCode, logins, ids, wasLive, liveNow, i, k, stopped, wake,
                   sweepVars, tickVars>>

\* The caption. A string is the sequence of its characters.
Alphabet == {"&", "<", ">", "a"}
Example == <<"<", "b", ">", "A", " ", "&", " ", "B", "<", "/", "b", ">">>
Texts == UNION {[1..n -> Alphabet] : n \in 0..MaxText} \cup {Example}

AMP == <<"&", "a", "m", "p", ";">>
LT == <<"&", "l", "t", ";">>
GT == <<"&", "g", "t", ";">>

\* str.replace(/ch/g, with)
RECURSIVE ReplaceAll(_, _, _)
ReplaceAll(str, ch, with) ==
    IF str = << >> THEN << >>
    ELSE (IF Head(str) = ch THEN with ELSE <<Head(str)>>)
            \o ReplaceAll(Tail(str), ch, with)

\* variant: & is replaced last, after < and > have become entities
escapeHtml_AmpLast(str) ==
    ReplaceAll(ReplaceAll(ReplaceAll(str, "<", LT), ">", GT), "&", AMP)

\* String(str).replace(/&/g, "&amp;").replace(/</g, "&lt;").replace(/>/g, "&gt;")
escapeHtml(str) ==
    ReplaceAll(ReplaceAll(ReplaceAll(str, "&", AMP), "<", LT), ">", GT)

\* the fields of a stream object that the caption reads
Fields == {"user_name", "game_name", "title", "user_login"}
Streams == {[f \in Fields |-> IF f = g THEN t ELSE <<"a">>] :
              g \in Fields, t \in Texts}

\* The literal text of the template, in four pieces; each piece stands for
\* text without &, < or >. CaptionLink is the end of the fourth piece.
CaptionHead == <<"(live) ">>
CaptionGame == <<" (is streaming)", "\n", "(game) ">>
CaptionTitle == <<"\n", "(title) ">>
CaptionLink == <<"\n", "(watch here) ", "https://twitch.tv/">>

\* const caption = `... ${escapeHtml(stream.user_name)} ...` in tgSendStream
Caption(stream) ==
    CaptionHead \o escapeHtml(stream.user_name)
        \o CaptionGame \o escapeHtml(stream.game_name)
        \o CaptionTitle \o escapeHtml(stream.title)
        \o CaptionLink \o stream.user_login

\* a caller calls escapeHtml(str)
EscapeCall ==
    /\ pc = "lib"
    /\ \E str \in Texts :
          ev' = [NoEv EXCEPT !.op = "escapeHtml", !.arg = str,
                             !.out = escapeHtml(str)]
    /\ UNCHANGED <<calls, now, tokenVars, sentMessages, nextMsgId, notifier, pc,
                   exitCode, logins, ids, wasLive, liveNow, i, k, stopped, wake,
                   sweepVars, tickVars>>

\* tgSendStream(stream) builds its caption
CaptionCall ==
    /\ pc = "lib"
    /\ \E stream \in Streams :
          ev' = [NoEv EXCEPT !.op = "caption", !.arg = stream,
                             !.out = Caption(stream)]
    /\ UNCHANGED <<calls, now, tokenVars, sentMessages, nextMsgId, notifier, pc,
                   exitCode, logins, ids, wasLive, liveNow, i, k, stopped, wake,
                   sweepVars, tickVars>>

\* -------------------------------------------------------- specifications
\* index.js: main() from process start
Next ==
    \/ RequireEnv
    \/ Startup
    \/ ResolveToken
    \/ ResolveBatch
    \/ FetchToken
    \/ FetchBatch
    \/ NotifyStep
    \/ CatchRefresh
    \/ Wake
    \/ Signal
    \/ Advance

Spec == Init /\ [][Next]_vars

\* methods.js: the ledger, filled by tgSendStream and drained by the deletion
\* timer, under a caller that calls them at any time
InitLedger ==
    /\ now = StartMs
    /\ TWITCH_TOKEN = Null
    /\ TWITCH_TOKEN_EXPIRES_AT = 0
    /\ issued = [at |-> 0, L |-> 0]
    /\ sentMessages = << >>
    /\ nextMsgId = 1
    /\ notifier = "tgSendStream"
    /\ pc = "lib"
    /\ exitCode = -1
    /\ logins = << >>
    /\ ids = << >>
    /\ wasLive = << >>
    /\ liveNow = {}
    /\ i = 0
    /\ k = 1
    /\ stopped = FALSE
    /\ wake = 0
    /\ calls = << >>
    /\ timerOn = FALSE
    /\ nextFire = << >>
    /\ timerList = << >>
    /\ sweeps = << >>
    /\ attempts = [m \in MessageIds |-> 0]
    /\ failedDel = {}
    /\ retried = {}
    /\ acked = << >>
    /\ swept = {}
    /\ tick = NoTick
    /\ prev = NoPrev
    /\ ev = NoEv

NextLedger ==
    \/ StartDeletionLoop
    \/ SendStream
    \/ SweepFire
    \/ SweepReply
    \/ Advance

SpecLedger == InitLedger /\ [][NextLedger]_vars

\* methods.js with the deletion timer started when the module's client starts,
\* on the finer clock. The timer keeps firing, every exchange with Telegram
\* that a sweep awaits settles, and time passes.
InitSweep ==
    /\ now = StartMs
    /\ TWITCH_TOKEN = Null
    /\ TWITCH_TOKEN_EXPIRES_AT = 0
    /\ issued = [at |-> 0, L |-> 0]
    /\ sentMessages = << >>
    /\ nextMsgId = 1
    /\ notifier = "tgSendStream"
    /\ pc = "lib"
    /\ exitCode = -1
    /\ logins = << >>
    /\ ids = << >>
    /\ wasLive = << >>
    /\ liveNow = {}
    /\ i = 0
    /\ k = 1
    /\ stopped = FALSE
    /\ wake = 0
    /\ calls = << >>
    /\ timerOn = TRUE
    /\ nextFire = <<StartMs + threeHOURs>>
    /\ timerList = <<1>>
    /\ sweeps = << >>
    /\ attempts = [m \in MessageIds |-> 0]
    /\ failedDel = {}
    /\ retried = {}
    /\ acked = << >>
    /\ swept = {}
    /\ tick = NoTick
    /\ prev = NoPrev
    /\ ev = NoEv

NextSweep ==
    \/ SendStream
    \/ SweepFire
    \/ SweepReply
    \/ AdvanceFine

SpecSweep ==
    /\ InitSweep
    /\ [][NextSweep]_vars
    /\ WF_vars(SweepFire)
    /\ WF_vars(SweepReply)
    /\ WF_vars(AdvanceFine)

\* the functions of the program, each called on its own by a caller
NextCalls ==
    \/ SleepCall
    \/ EscapeCall
    \/ CaptionCall

SpecCalls == InitLedger /\ [][NextCalls]_vars

\* requireEnv, getAppToken and twitchHeaders of methods.js, called one after
\* the other by a client, while time passes
NextToken ==
    \/ RequireEnvCall
    \/ GetAppTokenCall
    \/ TwitchHeadersCall
    \/ TokenReply
    \/ HeadersReturn
    \/ Advance

SpecToken == InitLedger /\ [][NextToken]_vars

\* getUserIds and getLiveStreams of methods.js, called one after the other
NextLookup ==
    \/ LookupCall
    \/ LookupToken
    \/ LookupRequest
    \/ LookupReturn

SpecLookup == InitLedger /\ [][NextLookup]_vars

\* the state after getUserIds resolved them with a token acquired at StartMs

InitMany ==
    /\ now = StartMs
    /\ \E tk \in Tokens, L \in Lifetimes :
          /\ TWITCH_TOKEN = tk
          /\ TWITCH_TOKEN_EXPIRES_AT = ExpiresAt(StartMs, L)
          /\ issued = [at |-> StartMs, L |-> L]
    /\ sentMessages = << >>
    /\ nextMsgId = 1
    /\ notifier = "tgSend"
    /\ pc = "fetch"
    /\ exitCode = -1
    /\ logins = LongList
    /\ ids = ManyIds
    /\ wasLive = [u \in Range(ManyIds) |-> FALSE]
    /\ liveNow = {}
    /\ i = 0
    /\ k = 1
    /\ stopped = FALSE
    /\ wake = 0
    /\ calls = << >>
    /\ timerOn = FALSE
    /\ nextFire = << >>
    /\ timerList = << >>
    /\ sweeps = << >>
    /\ attempts = [m \in MessageIds |-> 0]
    /\ failedDel = {}
    /\ retried = {}
    /\ acked = << >>
    /\ swept = {}
    /\ tick = [NoTick EXCEPT !.was = [u \in Range(ManyIds) |-> FALSE]]
    /\ prev = NoPrev
    /\ ev = [NoEv EXCEPT !.op = "resolve",
                         !.hdr = [called |-> TRUE, held |-> TRUE,
                                  cmp |-> "before", refreshed |-> FALSE],
                         !.req = TWITCH_TOKEN,
                         !.lookup = "ok"]

NextMany ==
    \/ FetchToken
    \/ FetchBatch
    \/ NotifyStep
    \/ CatchRefresh
    \/ Wake
    \/ Advance

SpecMany == InitMany /\ [][NextMany]_vars

\* index.js and methods.js side by side. index.js does not load methods.js
\* and calls none of its functions: main() sends with its own tgSend, and
\* the deletion timer runs only where something else in the process has
\* loaded methods.js and calls startDeletionLoop() and tgSendStream(). This
\* is such a process: the poll loop of index.js with one login, and a caller
\* of methods.js that has called startDeletionLoop() when the process starts
\* and awaits its tgSendStream() calls before main() runs; no stop signal
\* arrives.
InitBeside ==
    /\ now = StartMs
    /\ TWITCH_TOKEN = Null
    /\ TWITCH_TOKEN_EXPIRES_AT = 0
    /\ issued = [at |-> 0, L |-> 0]
    /\ sentMessages = << >>
    /\ nextMsgId = 1
    /\ notifier = "tgSend"
    /\ pc = "load"
    /\ exitCode = -1
    /\ logins = <<"alice">>
    /\ ids = << >>
    /\ wasLive = << >>
    /\ liveNow = {}
    /\ i = 0
    /\ k = 1
    /\ stopped = FALSE
    /\ wake = 0
    /\ calls = << >>
    /\ timerOn = TRUE
    /\ nextFire = <<StartMs + threeHOURs>>
    /\ timerList = <<1>>
    /\ sweeps = << >>
    /\ attempts = [m \in MessageIds |-> 0]
    /\ failedDel = {}
    /\ retried = {}
    /\ acked = << >>
    /\ swept = {}
    /\ tick = NoTick
    /\ prev = NoPrev
    /\ ev = NoEv

NextBeside ==
    \/ RequireEnv
    \/ Startup
    \/ ResolveToken
    \/ ResolveBatch
    \/ FetchToken
    \/ FetchBatch
    \/ NotifyStep
    \/ CatchRefresh
    \/ Wake
    \/ Advance
    \/ pc = "load" /\ SendStream
    \/ SweepFire
    \/ SweepReply

SpecBeside == InitBeside /\ [][NextBeside]_vars

\* index.js with its scheduling: the getAppToken() awaited in the catch block
\* settles (the HTTP exchange ends in a response or in an error), time passes
\* and the setTimeout of the sleep fires
SpecLive ==
    /\ Spec
    /\ WF_vars(CatchRefresh)
    /\ WF_vars(Advance)
    /\ WF_vars(Wake)

\* index.js where, besides, every awaited Helix and Telegram exchange settles
SpecStop ==
    /\ SpecLive
    /\ WF_vars(FetchToken)
    /\ WF_vars(FetchBatch)
    /\ WF_vars(NotifyStep)

\* ----------------------------------------------------------------- claims
\* a tick has just ended (the loop is entering its sleep) after getLiveStreams
\* returned; ev.tick is that tick and ev.prev the tick before it
TickDone == ev.op \in {"tick_end", "tick_abort"} /\ ev.tick.fetched

\* C1: on every tick, a notification is dispatched for a tracked account if and
\* only if the account is live on the tick and its recorded state was false
\* when the tick began; in particular none is dispatched for an account on the
\* second of two consecutive ticks on which it is live.
C1_NotifyIffTransition ==
    TickDone =>
        \A u \in Range(ids) :
            /\ (u \in ev.tick.sent) <=> (u \in ev.tick.live /\ ~ev.tick.was[u])
            /\ (ev.prev.fetched /\ u \in ev.prev.live /\ u \in ev.tick.live)
                  => u \notin ev.tick.sent

\* C2: the recorded live state of every tracked account is the tick's isLive
\* after every tick, whatever the dispatch did, and an account whose dispatch
\* failed on the tick before and that is still live gets no second
\* notification.
C2_StateUpdatedWhateverDispatch ==
    TickDone =>
        \A u \in Range(ids) :
            /\ wasLive[u] = (u \in ev.tick.live)
            /\ (u \in ev.prev.failed /\ u \in ev.tick.live) => u \notin ev.tick.sent

\* C3: tgSendStream never raises to its caller: on every failure of the send
\* (transport error, non-success acknowledgment, unparseable body) it returns
\* null, and a poll loop that awaits it does not enter its catch block but
\* goes on with the tick's remaining accounts.
C3_DispatchNeverRaises ==
    (ev.disp.called /\ notifier = "tgSendStream" /\ SendFailed(ev.disp.resp)) =>
        /\ ~ev.disp.raised
        /\ ev.disp.ret = RetNull
        /\ pc # "catch"

\* the ledger the acknowledged sends and the deletions account for
Accounted == SelectSeq(acked, LAMBDA r : r \notin swept)

\* C4: the ledger holds exactly one record, with sentAt the time of the send,
\* for each tgSendStream call acknowledged with a message identifier (less
\* the records the deletion timer took out), none for a call that failed, and
\* tgSendStream returns the message identifier exactly when it is acknowledged
\* with one.
C4_LedgerGainsExactlyAcked ==
    /\ sentMessages = Accounted
    /\ (ev.disp.called /\ notifier = "tgSendStream") =>
          IF ev.disp.resp.kind = "ok"
          THEN /\ ev.disp.ret = RetId(ev.disp.resp.message_id)
               /\ sentMessages = Append(ev.disp.before,
                                        [chatId |-> CHAT,
                                         messageId |-> RetId(ev.disp.resp.message_id),
                                         sentAt |-> now])
          ELSE /\ ev.disp.ret.t # "number"
               /\ sentMessages = ev.disp.before

\* a deletion callback has returned
SweepDone == ev.op \in {"sweep_end", "sweep_none"}

\* C5: a firing selects exactly the stored records with sentAt <= now - 3
\* hours; when it has finished none of them is in the ledger; it removes no
\* record later than its cutoff, those appended while it awaited included, so
\* such a record is still in the ledger after it (unless another firing of
\* the timer, which selected it, removed it).
C5_SweepTakesOnlyOldRecords ==
    /\ ev.op \in {"sweep_fire", "sweep_none"} =>
          /\ Range(ev.sweep.selected) =
                {r \in Range(sentMessages) : r.sentAt <= now - threeHOURs}
          /\ ev.sweep.cutoff = now - threeHOURs
    /\ ev.op \in {"sweep_step", "sweep_end"} =>
          \A r \in ev.sweep.removed : r.sentAt <= ev.sweep.cutoff
    /\ SweepDone =>
          /\ \A r \in Range(ev.sweep.selected) : r \notin Range(sentMessages)
          /\ \A r \in ev.sweep.seen :
                r.sentAt > ev.sweep.cutoff =>
                   \/ r \in Range(sentMessages)
                   \/ r \in swept \ ev.sweep.removed

\* C6: after the deletion attempt for a selected record, succeeded or failed,
\* the record is not in the ledger, and deleteMessage is never called again
\* for a message whose deletion failed.
C6_RemovedAndNeverRetried ==
    /\ ev.op \in {"sweep_step", "sweep_end"} =>
          \A r \in Range(ev.sweep.processed) : r \notin Range(sentMessages)
    /\ retried = {}

\* C7: a twitchHeaders() call acquires a token when none is held and when the
\* time has passed TWITCH_TOKEN_EXPIRES_AT, and acquires none when a token is
\* held and the time is strictly before TWITCH_TOKEN_EXPIRES_AT.
C7_RefreshWhenNeeded ==
    ev.hdr.called =>
        /\ (~ev.hdr.held \/ ev.hdr.cmp = "after") =>
              (ev.hdr.refreshed /\ ev.acq.called)
        /\ (ev.hdr.held /\ ev.hdr.cmp = "before") =>
              (~ev.hdr.refreshed /\ ~ev.acq.called)

C7_Witness ==
    /\ ev.hdr.called
    /\ ev.hdr.held
    /\ ev.hdr.cmp = "after"
    /\ ev.acq.called
    /\ now > StartMs

\* a Helix request has just been sent with a bearer token
Sent == ev.req \notin {"none", Null}

\* C8 as stated: a token is never sent in a Helix request later than 300
\* seconds before the end of the lifetime it was issued with, for every
\* issued lifetime.
C8_NeverSentInsideMargin ==
    (Sent /\ issued.L > 0) =>
        now <= issued.at + (issued.L - MarginSec) * 1000

\* C8 amended: a token issued with a lifetime of at least 600 seconds is never
\* sent later than 300 seconds before the end of that lifetime; one issued
\* with a shorter lifetime is never sent later than 300 seconds after it was
\* issued; one issued with no lifetime, or with lifetime 0, is never sent
\* later than 3300 seconds after it was issued.
C8_SentWithinRefreshWindow ==
    Sent =>
        /\ ev.req = TWITCH_TOKEN
        /\ issued.L >= 2 * MarginSec =>
              now <= issued.at + (issued.L - MarginSec) * 1000
        /\ (issued.L > 0 /\ issued.L < 2 * MarginSec) =>
              now <= issued.at + FloorSec * 1000
        /\ issued.L = 0 =>
              now <= issued.at + (DefaultTtlSec - MarginSec) * 1000

C8_Witness ==
    /\ Sent
    /\ ~ev.acq.called
    /\ issued.L >= 2 * MarginSec
    /\ now = issued.at + (issued.L - MarginSec) * 1000

\* C9: after a successful getAppToken() that reports a lifetime of L seconds
\* at time now, TWITCH_TOKEN is the returned token and
\* TWITCH_TOKEN_EXPIRES_AT is now + max(L - 300, 300) seconds, for every L.
C9_ExpiryFromLifetime ==
    (ev.acq.called /\ ev.acq.resp.kind = "ok") =>
        /\ TWITCH_TOKEN = ev.acq.resp.access_token
        /\ TWITCH_TOKEN_EXPIRES_AT =
              now + Max(ev.acq.resp.expires_in - MarginSec, FloorSec) * 1000

\* C10: an error in a tick never ends the process. The tick goes to the catch
\* block, the catch block calls getAppToken() once and, whatever comes of it,
\* goes to the sleep of the poll interval; the sleep ends in the next tick,
\* or in exit code 0 when a stop signal has arrived.
C10_Step ==
    /\ pc \in {"fetch", "streams", "notify"} =>
          pc' \in {"fetch", "streams", "notify", "catch", "sleep"}
    /\ pc = "catch" =>
          \/ pc' = "catch"
          \/ /\ pc' = "sleep"
             /\ ev'.op = "tick_abort"
             /\ ev'.acq.called
             /\ wake' = now + delayMs
             /\ wasLive' = wasLive
    /\ pc = "sleep" =>
          \/ pc' = "sleep"
          \/ pc' = "fetch" /\ ~stopped /\ now >= wake
          \/ pc' = "exited" /\ stopped /\ exitCode' = 0

\* a failed tick that the clock of the model leaves room to sleep after
FailedTick == pc = "catch" /\ now + delayMs <= MaxTime

C10_FailedTickIsFollowedByATick ==
    /\ [][C10_Step]_vars
    /\ FailedTick ~> (pc = "fetch" \/ stopped)

C10_Witness ==
    /\ pc = "fetch"
    /\ now > StartMs
    /\ ~prev.fetched
    /\ TWITCH_TOKEN # Null

\* main() is in its poll loop
Polling == pc \in {"fetch", "streams", "notify", "catch", "sleep"}

\* C11: main() polls only with at least one configured login and at least one
\* resolved id. With no login, with no resolved id, or with a getUserIds batch
\* that fails, the process exits with code 1, and then no tick has begun, no
\* notification has been sent and wasLive has never been set.
C11_PollingNeedsResolvedIds ==
    /\ Polling =>
          /\ Len(logins) > 0
          /\ Len(ids) > 0
          /\ DOMAIN wasLive = Range(ids)
    /\ (pc \notin {"load", "init"} /\ Len(logins) = 0) =>
          (pc = "exited" /\ exitCode = 1)
    /\ (ev.op = "load" /\ pc # "init") => (pc = "exited" /\ exitCode = 1)
    /\ (ev.op = "resolve_token" /\ ev.acq.resp.kind # "ok") =>
          (pc = "exited" /\ exitCode = 1)
    /\ (ev.op = "resolve" /\ ev.lookup \in {"transport", "status"}) =>
          (pc = "exited" /\ exitCode = 1)
    /\ (ev.op = "resolve" /\ pc # "resolve" /\ Len(ids) = 0) =>
          (pc = "exited" /\ exitCode = 1)
    /\ exitCode = 1 =>
          /\ pc = "exited"
          /\ wasLive = << >>
          /\ tick = NoTick
          /\ prev = NoPrev
          /\ sentMessages = << >>
          /\ acked = << >>

C11_Witness ==
    /\ pc = "exited"
    /\ exitCode = 1
    /\ ev.lookup = "status"
    /\ Len(logins) = ManyLogins
    /\ Len(ids) > 0

\* the stop flag is set and the clock of the model leaves room for the sleep
\* that precedes the exit
StopPending ==
    /\ stopped
    /\ pc # "exited"
    /\ IF pc = "sleep" THEN wake <= MaxTime ELSE now + delayMs <= MaxTime

C12_Step ==
    stopped =>
        /\ stopped'
        /\ pc \in {"fetch", "streams", "notify", "catch"} =>
              pc' \in {"fetch", "streams", "notify", "catch", "sleep"}
        /\ pc = "sleep" =>
              /\ pc' \in {"sleep", "exited"}
              /\ ~ev'.disp.called
              /\ sentMessages' = sentMessages
              /\ wasLive' = wasLive
        /\ (pc # "exited" /\ pc' = "exited") => (pc = "sleep" /\ exitCode' = 0)

\* C12: once SIGINT or SIGTERM has set the stop flag, the tick in flight runs
\* to its end, no tick begins after it, nothing is sent after it, and the
\* process reaches exit code 0.
C12_StopEndsInExitZero ==
    /\ [][C12_Step]_vars
    /\ StopPending ~> (pc = "exited" /\ exitCode = 0)

C12_Witness ==
    /\ stopped
    /\ pc = "sleep"
    /\ ev.op = "tick_end"
    /\ ev.disp.called
    /\ wake <= MaxTime

\* a poll tick is in progress
InTick == pc \in {"fetch", "streams", "notify", "catch"}

C13_Step ==
    /\ (~InTick /\ InTick') =>
          /\ pc' = "fetch"
          /\ tick = NoTick
          /\ pc \in {"resolve", "users"} \/ (pc = "sleep" /\ now >= wake /\ ~stopped)
    /\ (InTick /\ ~InTick') =>
          /\ pc' = "sleep"
          /\ tick' = NoTick
          /\ wake' = now + delayMs

\* C13: at most one poll tick is in progress: a tick begins only when the
\* tick before it, its sends and its catch block included, has ended and the
\* sleep that follows it has run its full time.
C13_OneTickAtATime ==
    /\ [](InTick <=> tick # NoTick)
    /\ [][C13_Step]_vars

C13_Witness ==
    /\ pc = "fetch"
    /\ prev.fetched
    /\ prev.failed # {}
    /\ now >= wake
    /\ now > StartMs

\* the step is a segment of a poll tick / of a deletion callback
TickStep == ev'.op \in {"fetch_token", "fetch", "notify", "tick_end", "tick_abort"}
SweepStep == ev'.op \in {"sweep_fire", "sweep_none", "sweep_step", "sweep_end"}

\* the state of the poll loop and of the token
LoopState == <<wasLive, liveNow, ids, i, k, pc, wake, stopped, exitCode,
               TWITCH_TOKEN, TWITCH_TOKEN_EXPIRES_AT>>

\* C14: the deletion callback and a poll tick in progress never touch the
\* same mutable state, however their segments interleave: a segment of the
\* callback leaves the state of the poll loop and the token as they are and
\* writes only the ledger and its own selection, and a segment of a tick
\* (fetch, send, state update) leaves the ledger and what a callback in
\* flight has selected as they are.
C14_TickLeavesLedgerAlone ==
    [][/\ SweepStep => UNCHANGED LoopState
       /\ TickStep => UNCHANGED <<sentMessages, sweeps>>]_vars

\* a tick has sent a notification while a deletion callback was awaiting a
\* deleteMessage and the ledger held a record: neither was touched
C14_Witness ==
    /\ ev.op \in {"notify", "tick_end"}
    /\ ev.disp.called
    /\ ~ev.disp.raised
    /\ Len(sentMessages) > 0
    /\ Len(sweeps) > 0
    /\ \E u \in Range(ids) : wasLive[u]

RECURSIVE Flatten(_)
Flatten(seqs) == IF seqs = << >> THEN << >> ELSE Head(seqs) \o Flatten(Tail(seqs))

Lengths(seqs) == [j \in 1..Len(seqs) |-> Len(seqs[j])]

\* a getUserIds / getLiveStreams call has returned its result
LookupDone ==
    /\ pc = "lib"
    /\ ev.op \in {"getUserIds", "getLiveStreams"}
    /\ ev.lookup \in {"none", "ok"}

\* a getUserIds / getLiveStreams call has ended with an error
LookupRaised ==
    /\ pc = "lib"
    /\ ev.op \in {"getUserIds", "getLiveStreams"}
    /\ ev.lookup \in {"token_failed", "status", "transport"}

\* C15: for n identifiers a getUserIds or getLiveStreams call that returns
\* its result has sent ceil(n / 100) requests, each with at least 1 and at
\* most 100 identifiers, and the requests taken together carry the
\* identifiers once each, in input order: 250 give 100, 100, 50; 150 give
\* 100, 50; none gives no request. A call that a failed request or a failed
\* token acquisition ends has sent the first batches of that sequence.
C15_BatchesOfHundred ==
    /\ pc \in {"lookup", "lookup_req"} =>
          Flatten(ev.out) = SubSeq(ev.arg, 1, Min(i, Len(ev.arg)))
    /\ LookupRaised =>
          /\ Len(ev.out) <= (Len(ev.arg) + 99) \div 100
          /\ \A r \in 1..Len(ev.out) :
                ev.out[r] = SubSeq(ev.arg, 100 * (r - 1) + 1,
                                   Min(100 * r, Len(ev.arg)))
    /\ LookupDone =>
          LET n == Len(ev.arg)
          IN  /\ Len(ev.out) = (n + 99) \div 100
              /\ \A r \in 1..Len(ev.out) : Len(ev.out[r]) \in 1..100
              /\ Flatten(ev.out) = ev.arg
              /\ n = 250 => Lengths(ev.out) = <<100, 100, 50>>
              /\ n = 150 => Lengths(ev.out) = <<100, 50>>
              /\ n = 0 => ev.out = << >>

C15_Witness ==
    /\ LookupDone
    /\ Len(ev.arg) = 250
    /\ Len(ev.out) = 3

\* the accounts have just been resolved and the first tick begins
AtStartup == ev.op = "resolve" /\ pc = "fetch"

\* a tick whose loop over the accounts ran to its end
TickCompleted == ev.op = "tick_end"

\* C16: the recorded state is false for every resolved account at startup, and
\* after every tick that completes it is, for each tracked id, whether the id
\* was in the tick's live set. With alice, bob resolved to 1, 2: a tick with
\* live set {1} on the state {1:false,2:false} dispatches for 1 and leaves
\* {1:true,2:false}; a tick with {1,2} on that state dispatches for 2 only and
\* leaves {1:true,2:true}; a tick with {} on that state dispatches nothing and
\* leaves {1:false,2:false}.
C16_StateIsTheLiveSet ==
    /\ Polling => DOMAIN wasLive = Range(ids)
    /\ AtStartup => \A u \in Range(ids) : ~wasLive[u] /\ ~tick.was[u]
    /\ TickCompleted =>
          /\ \A u \in Range(ids) : wasLive[u] = (u \in ev.tick.live)
          /\ ev.tick.sent = {u \in ev.tick.live : ~ev.tick.was[u]}
    /\ (TickCompleted /\ ids = <<1, 2>>) =>
          /\ (ev.tick.was = (1 :> FALSE @@ 2 :> FALSE) /\ ev.tick.live = {1})
                => ev.tick.sent = {1} /\ wasLive = (1 :> TRUE @@ 2 :> FALSE)
          /\ (ev.tick.was = (1 :> TRUE @@ 2 :> FALSE) /\ ev.tick.live = {1, 2})
                => ev.tick.sent = {2} /\ wasLive = (1 :> TRUE @@ 2 :> TRUE)
          /\ (ev.tick.was = (1 :> TRUE @@ 2 :> TRUE) /\ ev.tick.live = {})
                => ev.tick.sent = {} /\ wasLive = (1 :> FALSE @@ 2 :> FALSE)

\* the third tick of the scenario has completed
C16_Witness ==
    /\ TickCompleted
    /\ logins = <<"alice", "bob">>
    /\ ids = <<1, 2>>
    /\ now = StartMs + 2 * delayMs
    /\ ev.prev.live = {1, 2}
    /\ ev.tick.was = (1 :> TRUE @@ 2 :> TRUE)
    /\ ev.tick.live = {}
    /\ wasLive = (1 :> FALSE @@ 2 :> FALSE)

\* C17: for every configured poll interval the sleep between two ticks lasts
\* the configured number of seconds (to the millisecond), 5 seconds when fewer
\* are configured and 60 seconds when none is, and never less than 5 seconds.
C17_SleepIsConfiguredSeconds ==
    ev.op = "sleep" =>
        /\ ev.out >= MinPollSec * 1000
        /\ ~ev.arg.set => ev.out = DefaultPollSec * 1000
        /\ (ev.arg.set /\ StringToNumber(ev.arg.text).kind = "num") =>
              LET x == StringToNumber(ev.arg.text)
              IN  IF Below(x, MinPollSec)
                  THEN ev.out = MinPollSec * 1000
                  ELSE BinOf(ev.out) = Whole(Product(x, 1000))

\* what a character is replaced by
EntityOf(c) == CASE c = "&" -> AMP [] c = "<" -> LT [] c = ">" -> GT
                 [] OTHER -> <<c>>

\* no raw < or >, and no & that does not begin one of the three entities
Safe(str) ==
    \A p \in 1..Len(str) :
        /\ str[p] \notin {"<", ">"}
        /\ str[p] = "&" =>
              \E e \in {AMP, LT, GT} :
                  /\ p + Len(e) - 1 <= Len(str)
                  /\ SubSeq(str, p, p + Len(e) - 1) = e

Plain(str) == \A p \in 1..Len(str) : str[p] \notin {"&", "<", ">"}

\* for every input the output of escapeHtml is the input with each &, < and >
\* replaced by its entity; it is safe, and the example gives the example
EscapeHtmlEscapes ==
    ev.op = "escapeHtml" =>
        /\ ev.out = Flatten([p \in 1..Len(ev.arg) |-> EntityOf(ev.arg[p])])
        /\ Safe(ev.out)
        /\ ev.arg = Example =>
              ev.out = <<"&", "l", "t", ";", "b", "&", "g", "t", ";", "A", " ",
                         "&", "a", "m", "p", ";", " ", "B",
                         "&", "l", "t", ";", "/", "b", "&", "g", "t", ";">>

\* C18 as it is stated: escapeHtml replaces & by &amp;, then < by &lt;, then >
\* by &gt; in each interpolated field of the caption, so that <b>A & B</b>
\* renders as &lt;b&gt;A &amp; B&lt;/b&gt; and no raw <, > or & is left.
C18_EveryFieldEscaped ==
    /\ EscapeHtmlEscapes
    /\ ev.op = "caption" => Safe(ev.out)

\* C18: escapeHtml replaces & by &amp;, then < by &lt;, then > by &gt; in the
\* display name, the game name and the title of the caption; its output has no
\* raw < or > and no & other than the first character of an entity, and
\* <b>A & B</b> becomes &lt;b&gt;A &amp; B&lt;/b&gt;. The login name is put
\* into the link as it is, so the caption is safe when the login name has none
\* of the three characters.
C18_NameGameTitleEscaped ==
    /\ EscapeHtmlEscapes
    /\ ev.op = "caption" =>
          /\ Plain(ev.arg.user_login) => Safe(ev.out)
          /\ ev.out = CaptionHead
                \o Flatten([p \in 1..Len(ev.arg.user_name) |-> EntityOf(ev.arg.user_name[p])])
                \o CaptionGame
                \o Flatten([p \in 1..Len(ev.arg.game_name) |-> EntityOf(ev.arg.game_name[p])])
                \o CaptionTitle
                \o Flatten([p \in 1..Len(ev.arg.title) |-> EntityOf(ev.arg.title[p])])
                \o CaptionLink \o ev.arg.user_login

\* the caption of a stream whose title is the example
C18_Witness ==
    /\ ev.op = "caption"
    /\ ev.arg.title = Example
    /\ Safe(ev.out)
    /\ Len(ev.out) > Len(Example) + 8

\* a batch request of getLiveStreams has just failed
BatchFailed ==
    \/ ev.op = "fetch_token" /\ ev.acq.resp.kind # "ok"
    \/ ev.op = "fetch" /\ ev.lookup # "ok"

\* the tick that has just ended was left because its fetch failed
FetchFailedTick == ev.op = "tick_abort" /\ ~ev.tick.fetched

C19_Step == pc \in {"catch", "sleep"} => wasLive' = wasLive

\* C19: a tick whose live-set fetch fails on any of its batches, the first or
\* a later one, goes to the catch block, leaves the recorded state of every
\* tracked account as it was when the tick began and dispatches nothing; the
\* state is not touched before the next tick, which compares with it.
C19_FailedFetchChangesNothing ==
    /\ [](BatchFailed => pc = "catch")
    /\ []((pc = "catch" /\ ~tick.fetched) => (wasLive = tick.was /\ tick.sent = {}))
    /\ [](FetchFailedTick => (wasLive = ev.tick.was /\ ev.tick.sent = {}))
    /\ [](pc \in {"fetch", "streams"} => (tick.was = wasLive /\ tick.sent = {}))
    /\ [][C19_Step]_vars

\* the second batch failed after the first reported its last account live, on
\* a tick after one that completed with that account offline
C19_Witness ==
    /\ FetchFailedTick
    /\ i = BatchSize
    /\ liveNow = {ManyIds[BatchSize]}
    /\ ev.prev.fetched
    /\ ~wasLive[ManyIds[BatchSize]]

\* the step called getAppToken() and the endpoint did not answer with success
AcquisitionFailed == ev'.acq.called /\ ev'.acq.resp.kind # "ok"

C20_Step ==
    /\ AcquisitionFailed =>
          /\ TWITCH_TOKEN' = TWITCH_TOKEN
          /\ TWITCH_TOKEN_EXPIRES_AT' = TWITCH_TOKEN_EXPIRES_AT
          /\ ev'.op \in {"resolve_token", "fetch_token"} => ev'.req = "none"
          /\ ev'.op = "resolve_token" => pc' = "exited" /\ exitCode' = 1
          /\ ev'.op = "fetch_token" => pc' = "catch"
    /\ (TWITCH_TOKEN' # TWITCH_TOKEN \/ TWITCH_TOKEN_EXPIRES_AT' # TWITCH_TOKEN_EXPIRES_AT) =>
          /\ ev'.acq.called
          /\ ev'.acq.resp.kind = "ok"
          /\ TWITCH_TOKEN' = ev'.acq.resp.access_token

\* C20: a credential acquisition that is answered with a non-success status
\* (or not answered) raises, so that the request it was made for is not sent,
\* and leaves the stored token and the stored expiry as they were; the stored
\* credential changes only in a step whose acquisition succeeded.
C20_FailedAcquisitionKeepsCredential == [][C20_Step]_vars

\* an acquisition got a non-success status while a token was held
C20_Witness ==
    /\ ev.acq.called
    /\ ev.acq.resp.kind = "status"
    /\ TWITCH_TOKEN \in Tokens
    /\ TWITCH_TOKEN_EXPIRES_AT > 0

\* the record a step takes out of the ledger: a splice takes one element, at
\* the first index from which the ledger after the step differs
Taken ==
    IF Len(sentMessages') >= Len(sentMessages) THEN {}
    ELSE LET idx == CHOOSE j \in 1..Len(sentMessages) :
                       /\ \A h \in 1..(j - 1) : sentMessages'[h] = sentMessages[h]
                       /\ j = Len(sentMessages) \/ sentMessages'[j] # sentMessages[j]
         IN  {sentMessages[idx]}

\* a record is taken out of the ledger once; only of a record stored for a
\* falsy result can the ledger hold two that are equal, each taken once
C21_Step == \A r \in Taken : r \in swept => r.messageId \in FalsyResults

\* C21: over any run, runs in which the timer fires while an earlier firing
\* is still awaiting deletions included, deleteTelegramMessage is called at
\* most once for each ledger record and each record is taken out of the
\* ledger at most once.
C21_AttemptedAndRemovedOnce ==
    /\ [](\A m \in DOMAIN attempts : attempts[m] <= 1)
    /\ [][C21_Step]_vars

\* the times at which the clock of the model stands
Times == {StartMs + n * (StepMs \div 2) : n \in 0..(2 * MaxSteps)}

\* the records tgSendStream can push: { chatId, messageId, sentAt }
Records == [chatId : {CHAT}, messageId : MessageIds, sentAt : Times]

\* the record r is an element of the ledger: pushed and not spliced out
InLedger(r) == \E j \in 1..Len(sentMessages) : sentMessages[j] = r

\* the timer's next two firings are within the time looked at
TwoFiringsAhead == timerOn /\ nextFire[1] + threeHOURs <= MaxTime

\* C22: while the timer keeps firing every 3 hours, every record appended to
\* the ledger is removed from it, at the latest when the second firing after
\* its sentAt ends: a firing comes 3 hours after the one before and selects
\* what was sent up to the time of the one before, when it ends nothing that
\* old is left in the ledger, and a record with two firings ahead of it is
\* eventually gone.
C22_RemovedBySecondFiring ==
    /\ [](ev.op \in {"sweep_fire", "sweep_none"} =>
             (ev.sweep.cutoff = now - threeHOURs /\ nextFire = <<now + threeHOURs>>))
    /\ [](SweepDone =>
             \A r \in Range(sentMessages) : r.sentAt > ev.sweep.cutoff)
    /\ \A r \in Records :
          (InLedger(r) /\ TwoFiringsAhead) ~> ~InLedger(r)

\* the second firing has ended and has removed a record that was sent before
\* the first firing, which came too early to select it
C22_Witness ==
    /\ ev.op = "sweep_end"
    /\ now = StartMs + 2 * threeHOURs
    /\ \E r \in ev.sweep.removed :
          /\ r.sentAt > StartMs
          /\ r.sentAt < StartMs + threeHOURs
    /\ sentMessages = << >>

====
